---- MODULE Spec2Model ----
(***************************************************************************)
(* Local-first store, Gist backup client and sync orchestrator of          *)
(* gemini-council: StorageService (src/core/services/StorageService.ts),   *)
(* GistClient and SyncManager.                                             *)
(*                                                                         *)
(* Time is Date.now() in milliseconds, observed at multiples of TickMs.    *)
(***************************************************************************)
EXTENDS Integers, Sequences, FiniteSets, TLC

\* ------------------------------------------------------------------ bounds
MaxTicks == 1          \* how often the clock advances
MaxInputs == 2         \* saveMessage calls, forceSync calls, pushes by another device
MaxRuns == 2           \* executeSync invocations that can be in flight
MaxFaults == 3         \* error answers of the remote
MergeMaxMsgs == 2      \* messages per side in the merge specification

\* ------------------------------------------------------- program constants
SYNC_DEBOUNCE_MS == 30000
SYNC_MESSAGE_THRESHOLD == 5
MIN_SYNC_INTERVAL_MS == 60000
MAX_RETRY_ATTEMPTS == 3
RETRY_BACKOFF_MS == 5000
BACKUP_VERSION == 1

TickMs == SYNC_DEBOUNCE_MS
StartTime == TickMs
EndTime == StartTime + MaxTicks * TickMs

\* -------------------------------------------------------------- data model
ConvOrder == <<"c1", "c2">>          \* the conversation ids, in key order
ConvIds == {ConvOrder[i] : i \in 1..Len(ConvOrder)}
WriteIds == {"c1"}                   \* the conversation the devices write to
NoConv == [id |-> "none"]            \* db.conversations.get(id) === undefined
NoGist == [version |-> 0]            \* no backup gist exists remotely
GistWithoutFile == [version |-> -1]  \* the backup gist exists, its file does not
NoTimer == 0                         \* syncTimer === null (falsy)
NoSyncAt == 0                        \* lastSyncAt === null (falsy)
NoError == "null"
NoTitle == ""

\* message ids (uuids): those made on this device and those of another device
LocalMsgId(n) == n
RemoteMsgId(n) == 100 + n

\* ExternalMessage: the fields the store and the merge read, plus the content
ExternalMessage(id, createdAt, content) ==
    [id |-> id, createdAt |-> createdAt, content |-> content]

\* MessageAnchor as StorageBridge.createAnchor builds it: the fields of
\* MessageAnchorSchema (precedingMessageHash stands for them) and geminiMessageId
MessageAnchor(hash, geminiMessageId) ==
    [precedingMessageHash |-> hash, geminiMessageId |-> geminiMessageId]

\* the anchors made on this device and on another device
LocalAnchor == MessageAnchor("hL", "gL")
RemoteAnchor == MessageAnchor("hR", "gR")

\* createStoredConversation(id, title)
createStoredConversation(id, title, t) ==
    [id |-> id, messages |-> <<>>, anchors |-> [k \in {} |-> LocalAnchor],
     lastUpdated |-> t, synced |-> FALSE, title |-> title]

\* createEmptyBackup()
createEmptyBackup ==
    [version |-> BACKUP_VERSION, extensionId |-> "gemini-council",
     conversations |-> <<>>, totalMessages |-> 0]

Ids(msgs) == {msgs[i].id : i \in 1..Len(msgs)}
MsgSet(msgs) == {msgs[i] : i \in 1..Len(msgs)}

RECURSIVE SumLen(_)
SumLen(convs) ==
    IF convs = <<>> THEN 0
    ELSE Len(Head(convs).messages) + SumLen(Tail(convs))

\* ------------------------------------------------- StorageService: merging
\* Array.prototype.sort with (a, b) => a.createdAt - b.createdAt: stable
RECURSIVE InsertByCreatedAt(_, _)
InsertByCreatedAt(m, sorted) ==
    IF sorted = <<>> THEN <<m>>
    ELSE IF Head(sorted).createdAt <= m.createdAt
         THEN <<Head(sorted)>> \o InsertByCreatedAt(m, Tail(sorted))
         ELSE <<m>> \o sorted

RECURSIVE SortByCreatedAt(_)
SortByCreatedAt(msgs) ==
    IF msgs = <<>> THEN <<>>
    ELSE InsertByCreatedAt(msgs[Len(msgs)],
                           SortByCreatedAt(SubSeq(msgs, 1, Len(msgs) - 1)))

\* messageMap.set(msg.id, msg): a Map keeps the first insertion's position
MapSet(map, m) ==
    IF \E i \in 1..Len(map) : map[i].id = m.id
    THEN [i \in 1..Len(map) |-> IF map[i].id = m.id THEN m ELSE map[i]]
    ELSE Append(map, m)

RECURSIVE MapOfLocal(_, _)
MapOfLocal(map, local) ==
    IF local = <<>> THEN map
    ELSE MapOfLocal(MapSet(map, Head(local)), Tail(local))

\* Mutant: the cloud copy overwrites the local one on an id collision
CloudIntoMap_Overwrite(map, m) == MapSet(map, m)

\* if (!messageMap.has(msg.id)) messageMap.set(msg.id, msg)
CloudIntoMap(map, m) ==
    IF m.id \in Ids(map) THEN map ELSE Append(map, m)

RECURSIVE MapOfCloud(_, _)
MapOfCloud(map, cloud) ==
    IF cloud = <<>> THEN map
    ELSE MapOfCloud(CloudIntoMap(map, Head(cloud)), Tail(cloud))

mergeMessages(local, cloud) ==
    SortByCreatedAt(MapOfCloud(MapOfLocal(<<>>, local), cloud))

\* { ...localConv.anchors, ...cloudConv.anchors }
SpreadAnchors(la, ca) ==
    [k \in (DOMAIN la) \cup (DOMAIN ca) |-> IF k \in DOMAIN ca THEN ca[k] ELSE la[k]]

\* cloudConv.title || localConv.title
TitleOr(a, b) == IF a # NoTitle THEN a ELSE b

\* the branch cloudConv.lastUpdated > localConv.lastUpdated
MergeNewer(localConv, cloudConv) ==
    [localConv EXCEPT
        !.messages = mergeMessages(localConv.messages, cloudConv.messages),
        !.anchors = SpreadAnchors(localConv.anchors, cloudConv.anchors),
        !.lastUpdated = cloudConv.lastUpdated,
        !.synced = TRUE,
        !.title = TitleOr(cloudConv.title, localConv.title)]

\* Mutant: the remote messages are appended when the remote is not newer
MergeNotNewer_Appends(localConv, cloudConv) ==
    [localConv EXCEPT !.messages = @ \o cloudConv.messages]

\* the branches cloudConv.lastUpdated <= localConv.lastUpdated: no action
MergeNotNewer(localConv, cloudConv) == localConv

\* Mutant: a conversation new to the store is added as the snapshot holds it
MergeConv_Verbatim(localConv, cloudConv) ==
    IF localConv = NoConv THEN cloudConv
    ELSE IF cloudConv.lastUpdated > localConv.lastUpdated
         THEN MergeNewer(localConv, cloudConv)
         ELSE MergeNotNewer(localConv, cloudConv)

\* one iteration of the loop of mergeFromCloud
MergeConv(localConv, cloudConv) ==
    IF localConv = NoConv THEN [cloudConv EXCEPT !.synced = TRUE]
    ELSE IF cloudConv.lastUpdated > localConv.lastUpdated
         THEN MergeNewer(localConv, cloudConv)
         ELSE MergeNotNewer(localConv, cloudConv)

MergeKind(localConv, cloudConv) ==
    IF localConv = NoConv THEN "added"
    ELSE IF cloudConv.lastUpdated > localConv.lastUpdated THEN "updated"
         ELSE "unchanged"

\* mergeFromCloud(cloudConversations): the store after the transaction
RECURSIVE mergeFromCloud(_, _)
mergeFromCloud(store, cloudConversations) ==
    IF cloudConversations = <<>> THEN store
    ELSE LET c == Head(cloudConversations)
         IN mergeFromCloud([store EXCEPT ![c.id] = MergeConv(store[c.id], c)],
                           Tail(cloudConversations))

\* the {added, updated, unchanged} counts mergeFromCloud returns
RECURSIVE MergeCounts(_, _, _)
MergeCounts(store, cloudConversations, acc) ==
    IF cloudConversations = <<>> THEN acc
    ELSE LET c == Head(cloudConversations)
             k == MergeKind(store[c.id], c)
         IN MergeCounts([store EXCEPT ![c.id] = MergeConv(store[c.id], c)],
                        Tail(cloudConversations),
                        [acc EXCEPT ![k] = @ + 1])

NoCounts == [added |-> 0, updated |-> 0, unchanged |-> 0]

\* Mutant: only the conversations not yet synced are exported
exportAll_OnlyUnsynced(store) ==
    SelectSeq([k \in 1..Len(ConvOrder) |-> store[ConvOrder[k]]],
              LAMBDA conv : conv # NoConv /\ ~conv.synced)

\* exportAll(): db.conversations.toArray(), in primary-key order
RECURSIVE ExportOf(_, _)
ExportOf(store, order) ==
    IF order = <<>> THEN <<>>
    ELSE (IF store[Head(order)] = NoConv THEN <<>> ELSE <<store[Head(order)]>>)
         \o ExportOf(store, Tail(order))

exportAll(store) == ExportOf(store, ConvOrder)

\* markSynced(ids): update(id, {synced: true}) for each id that exists
markSynced(store, ids) ==
    [c \in ConvIds |->
        IF c \in ids /\ store[c] # NoConv THEN [store[c] EXCEPT !.synced = TRUE]
        ELSE store[c]]

ConvIdsOf(convs) == {convs[i].id : i \in 1..Len(convs)}

\* saveMessage(conversationId, message, anchor, conversationTitle)
saveMessage(store, c, message, anchor, title, t) ==
    LET conv0 == IF store[c] = NoConv THEN createStoredConversation(c, title, t)
                 ELSE store[c]
        conv1 == [conv0 EXCEPT
                    !.messages = Append(@, message),
                    !.anchors = [k \in (DOMAIN @) \cup {message.id} |->
                                    IF k = message.id THEN anchor ELSE @[k]],
                    !.lastUpdated = t,
                    !.synced = FALSE,
                    !.title = IF title # NoTitle /\ @ = NoTitle THEN title ELSE @]
    IN [store EXCEPT ![c] = conv1]

\* ------------------------------------------------------------------ state
VARIABLES
    now,             \* Date.now()
    db,              \* StorageService: db.conversations, by conversation id
    gist,            \* the backup file of the remote gist, or NoGist
    token,           \* GistClient.token is set
    syncState,       \* SyncManager.syncState
    pendingChanges,  \* SyncManager.pendingChanges
    syncTimer,       \* due time of the pending debounce timeout, or NoTimer
    isSyncing,       \* SyncManager.isSyncing
    run,             \* the executeSync invocations: position and locals
    unrecorded,      \* handleSaveMessage calls between saveMessage and recordChange
    inputs,          \* saveMessage, forceSync and other-device pushes so far
    faults,          \* error answers of the remote so far
    ret,             \* what executeSync() / forceSync() / login() returned in
                     \* the step just taken, if one did
    hyd,             \* the hydrate() invocation: position, caller and locals
    syncManagerInitialized,  \* background.ts: SyncManager.init() has completed
    savedGistId,     \* GistClient.savedGistId is set
    storedToken,     \* chrome.storage.local holds a token
    tx,              \* the transactions on db.conversations, in creation order
    response,        \* what the last handleSaveMessage to finish passed to
                     \* sendResponse
    storedSyncState, \* chrome.storage.local: what persistSyncState wrote last
    initCalls,       \* how often SyncManager.init() was called in this process
    hydLate,         \* the hydrate() of an init() called while one is running
    fileReaderPrototype, \* the read methods of FileReader.prototype
    interceptor      \* the content script's FileInterceptor

vars == <<now, db, gist, token, syncState, pendingChanges, syncTimer, isSyncing,
          run, unrecorded, inputs, faults, ret, hyd, syncManagerInitialized,
          savedGistId, storedToken, tx,
                   response, storedSyncState,
          initCalls, hydLate, fileReaderPrototype, interceptor>>

\* the initialization calls made by handlers
lateVars == <<initCalls, hydLate>>
\* the page the content script runs in
contentVars == <<fileReaderPrototype, interceptor>>

\* what no step of a sync cycle changes
cycleFrame == <<now, token, syncTimer, unrecorded, inputs, hyd,
                syncManagerInitialized, storedToken, tx,
                   response, storedSyncState, lateVars, contentVars>>
\* what the triggers and the environment leave alone
lifeVars == <<hyd, syncManagerInitialized, savedGistId, storedToken, tx,
              storedSyncState, lateVars, contentVars>>
\* the handlers' answers
NoResponse == [sent |-> FALSE, success |-> FALSE]
Responded(success) == [sent |-> TRUE, success |-> success]
\* the orchestrator's own fields
managerVars == <<syncState, pendingChanges, isSyncing>>

Runs == 1..MaxRuns

\* An executeSync invocation: where it is, its locals, and what it has seen
\* since it was called (pendingAtStart, unsyncedAtStart, sawNetwork); sleepMs
\* is the argument of the sleep() it is waiting in, 0 when it is not waiting.
IdleRun == [pc |-> "idle", attempt |-> 0, trigger |-> "none",
            pulled |-> <<>>, localData |-> <<>>,
            pendingAtStart |-> <<>>, unsyncedAtStart |-> {}, sawNetwork |-> FALSE,
            sleepMs |-> 0]

\* A hydrate() invocation: where it is, who called it (init or login), and
\* the conversations it pulled
IdleHydrate == [pc |-> "idle", by |-> "none", pulled |-> <<>>]

NoRet == [by |-> "none", val |-> FALSE]
Returned(trigger, val) == [by |-> trigger, val |-> val]

\* FileReader.prototype as the browser provides it
NativeFileReader ==
    [readAsDataURL |-> "native", readAsText |-> "native",
     readAsArrayBuffer |-> "native"]

\* FileInterceptor.originalFileReader = null
NoOriginal ==
    [readAsDataURL |-> "null", readAsText |-> "null", readAsArrayBuffer |-> "null"]

\* new FileInterceptor(config): nothing pending, nothing saved, not active;
\* reads are the FileReaders whose onload handleFileRead has wrapped and that
\* have not finished, issued counts the reads handed to handleFileRead
NewFileInterceptor ==
    [isActive |-> FALSE, pendingFiles |-> {}, originalFileReader |-> NoOriginal,
     reads |-> {}, issued |-> 0]

InitialSyncState ==
    [status |-> "idle", lastSyncAt |-> NoSyncAt, pendingChanges |-> 0,
     error |-> NoError]

\* persistSyncState(): the object written under SYNC_STATE_KEY by every
\* updateState
persistSyncState(ss) == [lastSyncAt |-> ss.lastSyncAt]

\* Mutant: the stored state is not read back
loadSyncState_Defaults(stored) == InitialSyncState

\* loadSyncState(): the sync state built from the stored object; a missing key
\* leaves the constructor's state, which is the state built from lastSyncAt null
loadSyncState(stored) ==
    [status |-> "idle", lastSyncAt |-> stored.lastSyncAt, pendingChanges |-> 0,
     error |-> NoError]

Init ==
    /\ now = StartTime
    /\ db = [c \in ConvIds |-> NoConv]
    /\ gist = NoGist
    /\ token \in BOOLEAN
    /\ syncState = InitialSyncState
    /\ pendingChanges = <<>>
    /\ syncTimer = NoTimer
    /\ isSyncing = FALSE
    /\ run = [i \in Runs |-> IdleRun]
    /\ unrecorded = <<>>
    /\ inputs = 0
    /\ faults = 0
    /\ ret = NoRet
    /\ hyd = IdleHydrate
    /\ syncManagerInitialized = FALSE
    /\ savedGistId = FALSE
    /\ storedToken = token
    /\ tx = <<>>
    /\ response = NoResponse
    /\ storedSyncState = persistSyncState(syncState)
    /\ initCalls = 0
    /\ hydLate = IdleHydrate
    /\ fileReaderPrototype = NativeFileReader
    /\ interceptor = NewFileInterceptor

\* -------------------------------------------------- GistClient: the remote
\* error codes findBackupGist can return to pull and push (NOT_FOUND is handled)
FindErrors == {"AUTH_FAILED", "RATE_LIMITED", "NETWORK", "UNKNOWN"}

\* GistError.message for each code
GistMessage(code) ==
    CASE code = "AUTH_FAILED" -> "Invalid GitHub Token"
      [] code = "RATE_LIMITED" -> "GitHub API Rate Limit Exceeded"
      [] code = "NETWORK" -> "Network error"
      [] code = "PARSE_ERROR" -> "Invalid backup format"
      [] code = "CONFIG_MISSING" -> "GitHub Token not set"
      [] OTHER -> "GitHub API Error"

\* the error codes pull() can return while a token is set
PullErrors == FindErrors \cup {"PARSE_ERROR"}

\* Mutant: the schema does not fix extensionId
Parses_AnyExtension(backup) == backup.version = BACKUP_VERSION

\* CloudBackupSchema.safeParse(rawJson).success, for the backups of the model
Parses(backup) ==
    backup.version = BACKUP_VERSION /\ backup.extensionId = "gemini-council"

\* MessageAnchorSchema.parse: a z.object keeps the keys it declares and
\* strips the others
ParseAnchor(anchor) == [precedingMessageHash |-> anchor.precedingMessageHash]

\* StoredConversationSchema.parse: anchors is a record of MessageAnchorSchema
ParseConversation(conv) ==
    [conv EXCEPT !.anchors = [k \in DOMAIN @ |-> ParseAnchor(@[k])]]

\* CloudBackupSchema.safeParse(rawJson).data of a backup that parses
ParseBackup(backup) ==
    [backup EXCEPT !.conversations =
        [k \in 1..Len(@) |-> ParseConversation(@[k])]]

\* findBackupGist found the backup gist: it caches its id
FoundGistId == gist # NoGist

\* findBackupGist(): an error answer of the remote, NOT_FOUND when no gist
\* has the description or the file, else the gist
FindAnswers == FindErrors \cup {"NOT_FOUND", "ok"}
findBackupGist(fault) ==
    IF fault \in FindErrors THEN fault
    ELSE IF gist = NoGist THEN "NOT_FOUND" ELSE "ok"

Success(data) == [success |-> TRUE, code |-> "none", data |-> data]
Failure(code) == [success |-> FALSE, code |-> code, data |-> NoGist]

\* Mutant: pull() hands NOT_FOUND to its caller
pull_ReturnsNotFound(fault) ==
    LET find == findBackupGist(fault)
    IN IF find # "ok" THEN Failure(find)
       ELSE IF gist = GistWithoutFile THEN Success(createEmptyBackup)
       ELSE IF ~Parses(gist) THEN Failure("PARSE_ERROR")
       ELSE Success(ParseBackup(gist))

\* pull() after its token check, when the remote answers fault ("none": no
\* error answer)
pull(fault) ==
    LET find == findBackupGist(fault)
    IN IF find = "NOT_FOUND" THEN Success(createEmptyBackup)
       ELSE IF find # "ok" THEN Failure(find)
       ELSE IF gist = GistWithoutFile THEN Success(createEmptyBackup)
       ELSE IF ~Parses(gist) THEN Failure("PARSE_ERROR")
       ELSE Success(ParseBackup(gist))

\* the conversations a device reads from the remote backup
PulledConversations ==
    IF gist \in {NoGist, GistWithoutFile} THEN createEmptyBackup.conversations
    ELSE ParseBackup(gist).conversations

\* Mutant: the aggregate counts the conversations
BuildBackup_CountsConversations(localData) ==
    [version |-> BACKUP_VERSION, extensionId |-> "gemini-council",
     conversations |-> localData, totalMessages |-> Len(localData)]

\* performSyncCycle: the backup built from the export, as push serializes it
BuildBackup(localData) ==
    [version |-> BACKUP_VERSION, extensionId |-> "gemini-council",
     conversations |-> localData, totalMessages |-> SumLen(localData)]

\* push(): its result; the result of updateGist / createGist is not looked at
PushResult(find, accepted) ==
    IF find \in FindErrors THEN find ELSE "success"

\* performSyncCycle: the Error thrown for a failed pull
PullThrows(code) ==
    CASE code = "RATE_LIMITED" -> "Rate limited"
      [] code = "NETWORK" -> "Network unavailable"
      [] OTHER -> GistMessage(code)

\* performSyncCycle: the Error thrown for a failed push
PushThrows(code) ==
    IF code = "RATE_LIMITED" THEN "GitHub Rate limit exceeded" ELSE GistMessage(code)

\* ------------------------------------------------- SyncManager: executeSync
\* Mutant: executeSync does not look at isSyncing
ExecuteSyncSkips_NoFlag == ~token

\* executeSync: the early returns
ExecuteSyncSkips == isSyncing \/ ~token

FreeRuns == {i \in Runs : run[i].pc = "idle"}
FirstFree == CHOOSE i \in FreeRuns : \A j \in FreeRuns : i <= j

UnsyncedIds == {c \in ConvIds : db[c] # NoConv /\ ~db[c].synced}

\* executeSync() up to its first await, called with syncState = ss and
\* pendingChanges = pend
ExecuteSync(trigger, ss, pend) ==
    IF ExecuteSyncSkips
    THEN /\ isSyncing' = isSyncing
         /\ syncState' = ss
         /\ run' = run
         /\ ret' = Returned(trigger, FALSE)
    ELSE /\ FreeRuns # {}
         /\ isSyncing' = TRUE
         /\ syncState' = [ss EXCEPT !.status = "syncing"]
         /\ run' = [run EXCEPT ![FirstFree] =
                        [IdleRun EXCEPT !.pc = "pull", !.attempt = 1,
                                        !.trigger = trigger,
                                        !.pendingAtStart = pend,
                                        !.unsyncedAtStart = UnsyncedIds]]
         /\ ret' = NoRet

\* Mutant: the wait before a retry does not grow with the attempt
Backoff_Constant(attempt) == RETRY_BACKOFF_MS

\* executeSync, catch block: the argument of sleep() after the failed attempt
Backoff(attempt) == RETRY_BACKOFF_MS * attempt

\* Mutant: the catch block also resets the pending list
AttemptFailed_ClearsPending(i, msg, ss, net) ==
    /\ pendingChanges' = <<>>
    /\ IF run[i].attempt < MAX_RETRY_ATTEMPTS
       THEN /\ run' = [run EXCEPT ![i].pc = "sleep", ![i].pulled = <<>>,
                                  ![i].localData = <<>>,
                                  ![i].sawNetwork = @ \/ net,
                                  ![i].sleepMs = Backoff(run[i].attempt)]
            /\ syncState' = [ss EXCEPT !.pendingChanges = 0]
            /\ isSyncing' = isSyncing
            /\ ret' = NoRet
       ELSE /\ run' = [run EXCEPT ![i] = IdleRun]
            /\ syncState' = [ss EXCEPT !.status = "error", !.error = msg,
                                       !.pendingChanges = 0]
            /\ isSyncing' = FALSE
            /\ ret' = Returned(run[i].trigger, FALSE)

\* Mutant: the loop is left after the last attempt with the flag still set
AttemptFailed_KeepsFlag(i, msg, ss, net) ==
    /\ pendingChanges' = pendingChanges
    /\ IF run[i].attempt < MAX_RETRY_ATTEMPTS
       THEN /\ run' = [run EXCEPT ![i].pc = "sleep", ![i].pulled = <<>>,
                                  ![i].localData = <<>>,
                                  ![i].sawNetwork = @ \/ net,
                                  ![i].sleepMs = Backoff(run[i].attempt)]
            /\ syncState' = ss
            /\ isSyncing' = isSyncing
            /\ ret' = NoRet
       ELSE /\ run' = [run EXCEPT ![i] = IdleRun]
            /\ syncState' = [ss EXCEPT !.status = "error", !.error = msg]
            /\ isSyncing' = isSyncing
            /\ ret' = Returned(run[i].trigger, FALSE)

\* executeSync, catch block of attempt run[i].attempt, thrown message msg,
\* entered with syncState = ss (net: the error was a NETWORK one); after the
\* last attempt the loop ends and executeSync resets isSyncing and returns false
AttemptFailed(i, msg, ss, net) ==
    /\ pendingChanges' = pendingChanges
    /\ IF run[i].attempt < MAX_RETRY_ATTEMPTS
       THEN /\ run' = [run EXCEPT ![i].pc = "sleep", ![i].pulled = <<>>,
                                  ![i].localData = <<>>,
                                  ![i].sawNetwork = @ \/ net,
                                  ![i].sleepMs = Backoff(run[i].attempt)]
            /\ syncState' = ss
            /\ isSyncing' = isSyncing
            /\ ret' = NoRet
       ELSE /\ run' = [run EXCEPT ![i] = IdleRun]
            /\ syncState' = [ss EXCEPT !.status = "error", !.error = msg]
            /\ isSyncing' = FALSE
            /\ ret' = Returned(run[i].trigger, FALSE)

\* performSyncCycle step 1: pull() answers with a snapshot
PullOk(i) ==
    /\ run[i].pc = "pull"
    /\ pull("none").success
    /\ run' = [run EXCEPT ![i].pc = "merge",
                          ![i].pulled = pull("none").data.conversations]
    /\ savedGistId' = FoundGistId
    /\ ret' = NoRet
    /\ UNCHANGED <<cycleFrame, managerVars, db, gist, faults>>

\* Mutant: the conversations of a backup that does not parse are merged
PullFail_MergesUnparsed(i, code) ==
    /\ run[i].pc = "pull"
    /\ IF code \in FindErrors
       THEN faults < MaxFaults /\ faults' = faults + 1 /\ pull(code).code = code
       ELSE ~pull("none").success /\ pull("none").code = code /\ faults' = faults
    /\ AttemptFailed(i, PullThrows(code),
                     IF code = "NETWORK" THEN [syncState EXCEPT !.status = "offline"]
                     ELSE syncState,
                     code = "NETWORK")
    /\ savedGistId' = (code = "PARSE_ERROR")
    /\ db' = IF code = "PARSE_ERROR" THEN mergeFromCloud(db, gist.conversations)
             ELSE db
    /\ UNCHANGED <<cycleFrame, gist>>

\* performSyncCycle step 1: pull() answers with an error; NETWORK sets offline.
\* PARSE_ERROR is the answer for a backup file that does not parse, the other
\* codes are answers of the remote
PullFail(i, code) ==
    /\ run[i].pc = "pull"
    /\ IF code \in FindErrors
       THEN faults < MaxFaults /\ faults' = faults + 1 /\ pull(code).code = code
       ELSE ~pull("none").success /\ pull("none").code = code /\ faults' = faults
    /\ AttemptFailed(i, PullThrows(code),
                     IF code = "NETWORK" THEN [syncState EXCEPT !.status = "offline"]
                     ELSE syncState,
                     code = "NETWORK")
    /\ savedGistId' = (code = "PARSE_ERROR")
    /\ UNCHANGED <<cycleFrame, db, gist>>

\* performSyncCycle step 2: mergeFromCloud(pullResult.data.conversations)
Merge(i) ==
    /\ run[i].pc = "merge"
    /\ db' = mergeFromCloud(db, run[i].pulled)
    /\ run' = [run EXCEPT ![i].pc = "export"]
    /\ ret' = NoRet
    /\ UNCHANGED <<cycleFrame, managerVars, gist, faults, savedGistId>>

\* performSyncCycle steps 3-5: exportAll(), then push(newBackup) is called:
\* without a token it returns CONFIG_MISSING at once
Export(i) ==
    /\ run[i].pc = "export"
    /\ IF token
       THEN /\ run' = [run EXCEPT ![i].pc = "push", ![i].localData = exportAll(db)]
            /\ ret' = NoRet
            /\ UNCHANGED managerVars
       ELSE AttemptFailed(i, PushThrows("CONFIG_MISSING"), syncState, FALSE)
    /\ UNCHANGED <<cycleFrame, db, gist, faults, savedGistId>>

\* performSyncCycle steps 4-5: push(newBackup). find is what findBackupGist
\* answers ("ok" for a gist found or NOT_FOUND), accepted whether the remote
\* accepts the PATCH / POST that follows
Push(i, find, accepted) ==
    /\ run[i].pc = "push"
    /\ (find \in FindErrors \/ ~accepted) => faults < MaxFaults
    /\ faults' = IF find \in FindErrors \/ ~accepted THEN faults + 1 ELSE faults
    /\ find \in FindErrors => ~accepted
    /\ gist' = IF find \notin FindErrors /\ accepted
               THEN BuildBackup(run[i].localData) ELSE gist
    /\ IF PushResult(find, accepted) = "success"
       THEN /\ run' = [run EXCEPT ![i].pc = "mark"]
            /\ ret' = NoRet
            /\ UNCHANGED managerVars
       ELSE AttemptFailed(i, PushThrows(PushResult(find, accepted)), syncState,
                          PushResult(find, accepted) = "NETWORK")
    /\ savedGistId' = (find \notin FindErrors /\ (gist # NoGist \/ accepted))
    /\ UNCHANGED <<cycleFrame, db>>

\* performSyncCycle step 6, markSynced(ids of the export), then the success
\* branch of executeSync and its return
MarkSynced(i) ==
    /\ run[i].pc = "mark"
    /\ db' = markSynced(db, ConvIdsOf(run[i].localData))
    /\ pendingChanges' = <<>>
    /\ syncState' = [status |-> "idle", lastSyncAt |-> now,
                     pendingChanges |-> 0, error |-> NoError]
    /\ isSyncing' = FALSE
    /\ run' = [run EXCEPT ![i] = IdleRun]
    /\ ret' = Returned(run[i].trigger, TRUE)
    /\ storedSyncState' = persistSyncState(syncState')
    /\ UNCHANGED <<now, token, syncTimer, unrecorded, inputs, hyd,
                   syncManagerInitialized, storedToken, tx, response,
                   gist, faults, savedGistId, lateVars, contentVars>>

\* executeSync: sleep(RETRY_BACKOFF_MS * attempt) is over, the next attempt
\* starts and calls pull(): without a token it returns CONFIG_MISSING at
\* once, and the attempt ends in the catch block
Wake(i) ==
    /\ run[i].pc = "sleep"
    /\ IF token
       THEN /\ run' = [run EXCEPT ![i].pc = "pull", ![i].attempt = @ + 1,
                                  ![i].sleepMs = 0]
            /\ ret' = NoRet
            /\ UNCHANGED managerVars
       ELSE /\ pendingChanges' = pendingChanges
            /\ IF run[i].attempt + 1 < MAX_RETRY_ATTEMPTS
               THEN /\ run' = [run EXCEPT ![i].attempt = @ + 1,
                                          ![i].sleepMs = Backoff(run[i].attempt + 1)]
                    /\ ret' = NoRet
                    /\ UNCHANGED <<syncState, isSyncing>>
               ELSE /\ run' = [run EXCEPT ![i] = IdleRun]
                    /\ syncState' = [syncState EXCEPT
                                        !.status = "error",
                                        !.error = PullThrows("CONFIG_MISSING")]
                    /\ isSyncing' = FALSE
                    /\ ret' = Returned(run[i].trigger, FALSE)
    /\ UNCHANGED <<cycleFrame, db, gist, faults, savedGistId>>

\* ---------------------------------------------- SyncManager: the triggers
\* Mutant: forceSync leaves the debounce timer armed
ForceSync_KeepsTimer ==
    /\ syncManagerInitialized
    /\ inputs < MaxInputs
    /\ inputs' = inputs + 1
    /\ IF isSyncing
       THEN /\ ret' = Returned("force", FALSE)
            /\ UNCHANGED <<syncState, syncTimer, isSyncing, run>>
       ELSE /\ syncTimer' = syncTimer
            /\ ExecuteSync("force", syncState, pendingChanges)
    /\ UNCHANGED <<now, db, gist, token, pendingChanges, unrecorded, faults,
                   lifeVars, response>>

\* forceSync()
ForceSync ==
    /\ syncManagerInitialized
    /\ inputs < MaxInputs
    /\ inputs' = inputs + 1
    /\ IF isSyncing
       THEN /\ ret' = Returned("force", FALSE)
            /\ UNCHANGED <<syncState, syncTimer, isSyncing, run>>
       ELSE /\ syncTimer' = NoTimer
            /\ ExecuteSync("force", syncState, pendingChanges)
    /\ UNCHANGED <<now, db, gist, token, pendingChanges, unrecorded, faults,
                   lifeVars, response>>

\* the debounce timeout set by scheduleSync fires: executeSync()
TimerFire ==
    /\ syncTimer # NoTimer
    /\ now >= syncTimer
    /\ syncTimer' = NoTimer
    /\ ExecuteSync("timer", syncState, pendingChanges)
    /\ UNCHANGED <<now, db, gist, token, pendingChanges, unrecorded, inputs,
                   faults, lifeVars, response>>

\* Mutant: scheduleSync syncs only above the threshold
SyncsNow_Strict(n, lastSyncAt) ==
    /\ n > SYNC_MESSAGE_THRESHOLD
    /\ (lastSyncAt = NoSyncAt \/ now - lastSyncAt >= MIN_SYNC_INTERVAL_MS)

\* scheduleSync: shouldSyncNow && canSyncNow, for a pending list of length n
SyncsNow(n, lastSyncAt) ==
    /\ n >= SYNC_MESSAGE_THRESHOLD
    /\ (lastSyncAt = NoSyncAt \/ now - lastSyncAt >= MIN_SYNC_INTERVAL_MS)

\* Mutant: recordChange does not publish the new count
recordChange_KeepsCount(conversationId) ==
    /\ pendingChanges' = Append(pendingChanges,
                                [conversationId |-> conversationId,
                                 timestamp |-> now])
    /\ LET ss == syncState
       IN IF SyncsNow(Len(pendingChanges'), syncState.lastSyncAt)
          THEN /\ ExecuteSync("threshold", ss, pendingChanges')
               /\ syncTimer' = syncTimer
          ELSE /\ syncTimer' = now + SYNC_DEBOUNCE_MS
               /\ syncState' = ss
               /\ ret' = NoRet
               /\ UNCHANGED <<isSyncing, run>>

\* recordChange(conversationId), which ends with scheduleSync()
recordChange(conversationId) ==
    /\ pendingChanges' = Append(pendingChanges,
                                [conversationId |-> conversationId,
                                 timestamp |-> now])
    /\ LET ss == [syncState EXCEPT !.pendingChanges = Len(pendingChanges')]
       IN IF SyncsNow(Len(pendingChanges'), syncState.lastSyncAt)
          THEN /\ ExecuteSync("threshold", ss, pendingChanges')
               /\ syncTimer' = syncTimer
          ELSE /\ syncTimer' = now + SYNC_DEBOUNCE_MS
               /\ syncState' = ss
               /\ ret' = NoRet
               /\ UNCHANGED <<isSyncing, run>>

\* Mutant: the handler reports failure when the change cannot be synced now
\* or the sync it started returned false
SaveResponse_ReportsSync(syncResult) ==
    Responded(token /\ ~isSyncing /\ ~(syncResult.by = "threshold" /\ ~syncResult.val))

\* handleSaveMessage: sendResponse({success: true}) at the end of its try
\* block. recordChange returns nothing, and scheduleSync does not await
\* executeSync, whose result (syncResult, if it returned at once) is dropped
SaveResponse(syncResult) == Responded(TRUE)

\* handleSaveMessage: storage.saveMessage(...), then, after
\* ensureSyncInitialized(), recordChange(conversationId). Once the manager is
\* initialized no other task runs between the two; before that the handler
\* waits for the initialization
SaveMessage(c) ==
    /\ inputs < MaxInputs
    /\ inputs' = inputs + 1
    /\ db' = saveMessage(db, c, ExternalMessage(LocalMsgId(inputs + 1), now, "L"),
                         LocalAnchor, NoTitle, now)
    /\ IF syncManagerInitialized
       THEN /\ recordChange(c)
            /\ unrecorded' = unrecorded
            /\ response' = SaveResponse(ret')
       ELSE /\ unrecorded' = Append(unrecorded, c)
            /\ ret' = NoRet
            /\ UNCHANGED <<managerVars, syncTimer, run, response>>
    /\ UNCHANGED <<now, gist, token, faults, lifeVars>>

\* handleSaveMessage resumes after the initialization it waited for
RecordChange ==
    /\ syncManagerInitialized
    /\ unrecorded # <<>>
    /\ unrecorded' = Tail(unrecorded)
    /\ recordChange(Head(unrecorded))
    /\ response' = SaveResponse(ret')
    /\ UNCHANGED <<now, db, gist, token, inputs, faults, lifeVars>>

\* ------------------------------- SyncManager: init, hydrate, login, logout
\* IndexedDB indexes numbers, strings, dates and arrays; a record whose
\* indexed field holds a boolean is not in the index
IsValidKey(v) == v \notin BOOLEAN

\* getUnsyncedCount(): db.conversations.where("synced").equals(0).count()
getUnsyncedCount(store) ==
    Cardinality({c \in ConvIds :
                    /\ store[c] # NoConv
                    /\ IsValidKey(store[c].synced)
                    /\ store[c].synced = 0})

\* hydrate() returns to its caller: init() completes and background.ts sets
\* syncManagerInitialized, or login() returns its successful result
HydrateReturns ==
    /\ hyd' = IdleHydrate
    /\ IF hyd.by = "init"
       THEN syncManagerInitialized' = TRUE /\ ret' = NoRet
       ELSE syncManagerInitialized' = syncManagerInitialized
            /\ ret' = Returned("login", TRUE)

\* Mutant: hydrate() does not look at isAuthenticated()
HydrateSkips_Never == FALSE

\* hydrate(): the early return when there is no token
HydrateSkips == ~token

\* ensureSyncInitialized() at startup: SyncManager.init(), which loads the
\* persisted sync state and ends with hydrate(); hydrate() returns at once
\* when there is no token
InitSyncManager ==
    /\ ~syncManagerInitialized
    /\ hyd.pc = "idle"
    /\ IF HydrateSkips
       THEN /\ syncManagerInitialized' = TRUE
            /\ syncState' = loadSyncState(storedSyncState)
            /\ UNCHANGED hyd
       ELSE /\ hyd' = [pc |-> "pull", by |-> "init", pulled |-> <<>>]
            /\ syncState' = [loadSyncState(storedSyncState) EXCEPT
                                !.status = "syncing"]
            /\ UNCHANGED syncManagerInitialized
    /\ ret' = NoRet
    /\ initCalls' = initCalls + 1
    /\ UNCHANGED <<now, db, gist, token, pendingChanges, syncTimer, isSyncing, run,
                   unrecorded, inputs, faults, savedGistId, storedToken, tx,
                   response, storedSyncState, hydLate, contentVars>>

\* hydrate(): pull() answers with a snapshot
HydratePullOk ==
    /\ hyd.pc = "pull"
    /\ pull("none").success
    /\ hyd' = [hyd EXCEPT !.pc = "merge", !.pulled = pull("none").data.conversations]
    /\ savedGistId' = FoundGistId
    /\ ret' = NoRet
    /\ UNCHANGED <<now, db, gist, token, managerVars, syncTimer, run, unrecorded,
                   inputs, faults, syncManagerInitialized, storedToken, tx,
                   response, storedSyncState, lateVars, contentVars>>

\* hydrate(): pull() answers with an error: status error, and hydrate returns
HydratePullFail(code) ==
    /\ hyd.pc = "pull"
    /\ IF code \in FindErrors
       THEN faults < MaxFaults /\ faults' = faults + 1 /\ pull(code).code = code
       ELSE ~pull("none").success /\ pull("none").code = code /\ faults' = faults
    /\ syncState' = [syncState EXCEPT !.status = "error", !.error = GistMessage(code)]
    /\ savedGistId' = (code = "PARSE_ERROR")
    /\ HydrateReturns
    /\ UNCHANGED <<now, db, gist, token, pendingChanges, syncTimer, isSyncing, run,
                   unrecorded, inputs, storedToken, tx,
                   response, storedSyncState, lateVars, contentVars>>

\* hydrate(): mergeFromCloud, getUnsyncedCount, scheduleSync() when it is
\* positive, then updateState({status: "idle", lastSyncAt, error: null})
HydrateMerge ==
    /\ hyd.pc = "merge"
    /\ db' = mergeFromCloud(db, hyd.pulled)
    /\ IF getUnsyncedCount(db') > 0
       THEN IF SyncsNow(Len(pendingChanges), syncState.lastSyncAt)
            THEN /\ syncTimer' = syncTimer
                 /\ IF ExecuteSyncSkips
                    THEN UNCHANGED <<isSyncing, run>>
                    ELSE /\ FreeRuns # {}
                         /\ isSyncing' = TRUE
                         /\ run' = [run EXCEPT ![FirstFree] =
                                        [IdleRun EXCEPT
                                            !.pc = "pull", !.attempt = 1,
                                            !.trigger = "threshold",
                                            !.pendingAtStart = pendingChanges,
                                            !.unsyncedAtStart =
                                                {c \in ConvIds : db'[c] # NoConv
                                                                 /\ ~db'[c].synced}]]
            ELSE /\ syncTimer' = now + SYNC_DEBOUNCE_MS
                 /\ UNCHANGED <<isSyncing, run>>
       ELSE UNCHANGED <<syncTimer, isSyncing, run>>
    /\ syncState' = [syncState EXCEPT !.status = "idle", !.lastSyncAt = now,
                                      !.error = NoError]
    /\ HydrateReturns
    /\ storedSyncState' = persistSyncState(syncState')
    /\ UNCHANGED <<now, gist, token, pendingChanges, unrecorded, inputs, faults,
                   savedGistId, storedToken, tx,
                   response, lateVars, contentVars>>

\* the answers GistClient.login can get: an empty token is refused without a
\* request; the request to /user is accepted, rejected, or fails on the network
LoginAnswers == {"ok", "empty", "rejected", "network"}

\* Mutant: login does not look at response.ok
LoginAccepted_IgnoresStatus(answer) == answer \in {"ok", "rejected"}

\* GistClient.login: the token was verified
LoginAccepted(answer) == answer = "ok"

\* SyncManager.login(token): GistClient.login, then hydrate() on success
Login(answer) ==
    /\ syncManagerInitialized
    /\ hyd.pc = "idle"
    /\ inputs < MaxInputs
    /\ inputs' = inputs + 1
    /\ IF LoginAccepted(answer)
       THEN /\ token' = TRUE
            /\ storedToken' = TRUE
            /\ savedGistId' = FALSE
            /\ hyd' = [pc |-> "pull", by |-> "login", pulled |-> <<>>]
            /\ syncState' = [syncState EXCEPT !.status = "syncing"]
            /\ ret' = NoRet
       ELSE /\ ret' = Returned("login", FALSE)
            /\ UNCHANGED <<token, storedToken, savedGistId, hyd, syncState>>
    /\ UNCHANGED <<now, db, gist, pendingChanges, syncTimer, isSyncing, run,
                   unrecorded, faults, syncManagerInitialized, tx,
                   response, storedSyncState, lateVars, contentVars>>

\* SyncManager.logout(): GistClient.logout(), then the pending list, the timer
\* and the sync state are reset
Logout ==
    /\ syncManagerInitialized
    /\ inputs < MaxInputs
    /\ inputs' = inputs + 1
    /\ token' = FALSE
    /\ savedGistId' = FALSE
    /\ storedToken' = FALSE
    /\ pendingChanges' = <<>>
    /\ syncTimer' = NoTimer
    /\ syncState' = [syncState EXCEPT !.status = "idle", !.lastSyncAt = NoSyncAt,
                                      !.pendingChanges = 0]
    /\ ret' = NoRet
    /\ storedSyncState' = persistSyncState(syncState')
    /\ UNCHANGED <<now, db, gist, isSyncing, run, unrecorded, faults, hyd,
                   syncManagerInitialized, tx,
                   response, lateVars, contentVars>>

\* ------------------------------------------------------------- environment
\* the backup formats in use: the one of this build and a later one
BackupVersions == {BACKUP_VERSION, BACKUP_VERSION + 1}

\* another device pushes a snapshot that holds one more message of its own,
\* in backup format version v
OtherDevicePush(c, v) ==
    /\ inputs < MaxInputs
    /\ inputs' = inputs + 1
    /\ LET m == ExternalMessage(RemoteMsgId(inputs + 1), now, "R")
           old == PulledConversations
           had == \E k \in 1..Len(old) : old[k].id = c
           fresh == saveMessage([x \in ConvIds |-> NoConv], c, m, RemoteAnchor, NoTitle,
                                now)[c]
           convs == IF had
                    THEN [k \in 1..Len(old) |->
                            IF old[k].id = c
                            THEN saveMessage([x \in ConvIds |-> old[k]], c, m,
                                             RemoteAnchor, NoTitle, now)[c]
                            ELSE old[k]]
                    ELSE Append(old, fresh)
       IN gist' = [BuildBackup(convs) EXCEPT !.version = v]
    /\ ret' = NoRet
    /\ UNCHANGED <<now, db, token, managerVars, syncTimer, run, unrecorded,
                   faults, lifeVars, response>>

\* time passes; a due timeout fires before the clock moves on
Tick ==
    /\ now < EndTime
    /\ syncTimer = NoTimer \/ now < syncTimer
    /\ now' = now + TickMs
    /\ ret' = NoRet
    /\ UNCHANGED <<db, gist, token, managerVars, syncTimer, run, unrecorded,
                   inputs, faults, lifeVars, response>>

Next ==
    \/ \E i \in Runs : PullOk(i)
    \/ \E i \in Runs, code \in PullErrors : PullFail(i, code)
    \/ \E i \in Runs : Merge(i)
    \/ \E i \in Runs : Export(i)
    \/ \E i \in Runs, find \in FindErrors \cup {"ok"}, accepted \in BOOLEAN :
          Push(i, find, accepted)
    \/ \E i \in Runs : MarkSynced(i)
    \/ \E i \in Runs : Wake(i)
    \/ ForceSync
    \/ TimerFire
    \/ \E c \in WriteIds : SaveMessage(c)
    \/ RecordChange
    \/ \E c \in WriteIds, v \in BackupVersions : OtherDevicePush(c, v)
    \/ Tick
    \/ InitSyncManager
    \/ HydratePullOk
    \/ \E code \in PullErrors : HydratePullFail(code)
    \/ HydrateMerge
    \/ \E answer \in LoginAnswers : Login(answer)
    \/ Logout

Spec == Init /\ [][Next]_vars

\* ------------------------------------------------- the merge on its own
\* mergeFromCloud applied to bounded local stores and remote snapshots
MergeIds == {1, 2, 3}
MergeStamps == {StartTime, StartTime + TickMs}

\* message lists of at most MergeMaxMsgs messages with distinct ids
MergeMsgLists(content) ==
    UNION {
        {[k \in 1..n |-> ExternalMessage(f[k][1], f[k][2], content)] :
            f \in {g \in [1..n -> MergeIds \X MergeStamps] :
                      \A a, b \in 1..n : a # b => g[a][1] # g[b][1]}}
        : n \in 0..MergeMaxMsgs}

MergeConvs(c, content, anchor, title) ==
    {[id |-> c, messages |-> ms, anchors |-> [k \in Ids(ms) |-> anchor],
      lastUpdated |-> u, synced |-> sy, title |-> t] :
        ms \in MergeMsgLists(content), u \in MergeStamps, sy \in BOOLEAN,
        t \in {NoTitle, title}}

MergeInit ==
    /\ now = EndTime
    /\ db \in {[c \in ConvIds |-> IF c \in WriteIds THEN l ELSE NoConv] :
                 l \in MergeConvs("c1", "L", LocalAnchor, "tL") \cup {NoConv}}
    /\ gist = NoGist
    /\ token = TRUE
    /\ syncState = [InitialSyncState EXCEPT !.status = "syncing"]
    /\ pendingChanges = <<>>
    /\ syncTimer = NoTimer
    /\ isSyncing = TRUE
    /\ \E cloud \in {<<>>} \cup {<<r>> : r \in MergeConvs("c1", "R", ParseAnchor(RemoteAnchor), "tR")} :
          run = [i \in Runs |->
                    IF i = 1
                    THEN [IdleRun EXCEPT !.pc = "merge", !.attempt = 1,
                                         !.trigger = "force", !.pulled = cloud]
                    ELSE IdleRun]
    /\ unrecorded = <<>>
    /\ inputs = 0
    /\ faults = 0
    /\ ret = NoRet
    /\ hyd = IdleHydrate
    /\ syncManagerInitialized = TRUE
    /\ savedGistId = FALSE
    /\ storedToken = TRUE
    /\ tx = <<>>
    /\ response = NoResponse
    /\ storedSyncState = persistSyncState(syncState)
    /\ initCalls = 0
    /\ hydLate = IdleHydrate
    /\ fileReaderPrototype = NativeFileReader
    /\ interceptor = NewFileInterceptor

MergeNext == \E i \in Runs : Merge(i)

MergeSpec == MergeInit /\ [][MergeNext]_vars

\* ------------------------------------------- the threshold on its own
\* recordChange on an initialized manager that holds n pending changes, all
\* recorded at the present instant, with and without a token, a sync in
\* flight, and a last sync
ThresholdTimes == {StartTime + 2 * TickMs, StartTime + 3 * TickMs}
ThresholdSyncTimes == {NoSyncAt, StartTime, StartTime + TickMs, StartTime + 2 * TickMs}

\* the store after n saves into c1 at time t, ids above those of the model
ThresholdStore(n, t) ==
    [c \in ConvIds |->
        IF n = 0 \/ c \notin WriteIds THEN NoConv
        ELSE [id |-> c,
              messages |-> [k \in 1..n |-> ExternalMessage(LocalMsgId(10 + k), t, "L")],
              anchors |-> [k \in {LocalMsgId(10 + j) : j \in 1..n} |-> LocalAnchor],
              lastUpdated |-> t, synced |-> FALSE, title |-> NoTitle]]

ThresholdInit ==
    /\ now \in ThresholdTimes
    /\ token \in BOOLEAN
    /\ isSyncing \in BOOLEAN
    /\ isSyncing => token
    /\ \E n \in 0..SYNC_MESSAGE_THRESHOLD, last \in ThresholdSyncTimes :
          /\ last # NoSyncAt => (token /\ last <= now)
          \* five changes are pending only if the fifth could not start a sync
          /\ n = SYNC_MESSAGE_THRESHOLD =>
                (~token \/ isSyncing \/ ~SyncsNow(n, last))
          /\ db = ThresholdStore(n, now)
          /\ pendingChanges = [k \in 1..n |-> [conversationId |-> "c1",
                                                timestamp |-> now]]
          /\ syncTimer = IF n = 0 THEN NoTimer ELSE now + SYNC_DEBOUNCE_MS
          /\ syncState = [status |-> IF isSyncing THEN "syncing" ELSE "idle",
                          lastSyncAt |-> last, pendingChanges |-> n,
                          error |-> NoError]
          /\ run = [i \in Runs |->
                      IF i = 1 /\ isSyncing
                      THEN [IdleRun EXCEPT !.pc = "pull", !.attempt = 1,
                                           !.trigger = "force"]
                      ELSE IdleRun]
    /\ gist = NoGist
    /\ unrecorded = <<>>
    /\ inputs = 0
    /\ faults = 0
    /\ ret = NoRet
    /\ hyd = IdleHydrate
    /\ syncManagerInitialized = TRUE
    /\ savedGistId = FALSE
    /\ storedToken = token
    /\ tx = <<>>
    /\ response = NoResponse
    /\ storedSyncState = persistSyncState(syncState)
    /\ initCalls = 0
    /\ hydLate = IdleHydrate
    /\ fileReaderPrototype = NativeFileReader
    /\ interceptor = NewFileInterceptor

ThresholdNext == \E c \in WriteIds : SaveMessage(c)

ThresholdSpec == ThresholdInit /\ [][ThresholdNext]_vars

\* ------------------------------------- the store's transactions on their own
\* saveMessage, mergeFromCloud and markSynced each run in one
\* db.transaction("rw", db.conversations, ...): a read of the conversation,
\* then, after awaits, a write. IndexedDB starts read-write transactions on
\* one object store in the order they were created, each after the one
\* before it has finished.
MaxTx == 3             \* store calls issued

NoTx == [kind |-> "none"]

\* a transaction: its call, where it is, and the conversation its get() read
SaveTx(c, message, anchor) ==
    [kind |-> "save", pc |-> "queued", c |-> c, message |-> message,
     anchor |-> anchor, cloud |-> NoConv, read |-> NoConv]
MergeTx(cloudConv) ==
    [kind |-> "merge", pc |-> "queued", c |-> cloudConv.id, message |-> NoTx,
     anchor |-> NoTx, cloud |-> cloudConv, read |-> NoConv]
MarkTx(c) ==
    [kind |-> "mark", pc |-> "queued", c |-> c, message |-> NoTx,
     anchor |-> NoTx, cloud |-> NoConv, read |-> NoConv]

\* the snapshots another device has pushed: one conversation with one message
\* of its own, not newer or newer than what this device writes
TxClouds ==
    {[id |-> c, messages |-> <<ExternalMessage(RemoteMsgId(1), StartTime, "R")>>,
      anchors |-> [k \in {RemoteMsgId(1)} |-> ParseAnchor(RemoteAnchor)],
      lastUpdated |-> u, synced |-> TRUE, title |-> "tR"] :
        c \in WriteIds, u \in {StartTime, EndTime}}

\* Mutant: transactions start as soon as they are created
TxMayStart_Unordered(k) == TRUE

\* the transaction may start: every transaction created before it is finished
TxMayStart(k) == \A j \in 1..(k - 1) : tx[j].pc = "done"

TxFrame == <<now, gist, token, syncState, pendingChanges, syncTimer, isSyncing,
             run, unrecorded, faults, ret, hyd, syncManagerInitialized,
             savedGistId, storedToken, response, storedSyncState, lateVars, contentVars>>

\* a handler calls saveMessage / a cycle calls mergeFromCloud or markSynced
TxIssue(t) ==
    /\ Len(tx) < MaxTx
    /\ tx' = Append(tx, t)
    /\ inputs' = inputs + 1
    /\ UNCHANGED <<db, TxFrame>>

\* the transaction starts and its first await, conversations.get(id), reads
TxStart(k) ==
    /\ tx[k].pc = "queued"
    /\ TxMayStart(k)
    /\ tx' = [tx EXCEPT ![k].pc = "active", ![k].read = db[tx[k].c]]
    /\ UNCHANGED <<db, inputs, TxFrame>>

\* what the transaction writes, computed from what it read: put(conversation)
\* for saveMessage, add(cloudConv) or update(id, {...}) for mergeFromCloud,
\* update(id, {synced: true}) for markSynced
TxWrite(t, store) ==
    CASE t.kind = "save" ->
            saveMessage([store EXCEPT ![t.c] = t.read], t.c, t.message, t.anchor,
                        NoTitle, now)
      [] t.kind = "merge" ->
            IF t.read = NoConv
            THEN IF store[t.c] = NoConv
                 THEN [store EXCEPT ![t.c] = MergeConv(NoConv, t.cloud)]
                 ELSE store
            ELSE IF store[t.c] = NoConv THEN store
                 ELSE [store EXCEPT ![t.c] = MergeConv(t.read, t.cloud)]
      [] OTHER -> markSynced(store, {t.c})

\* the write, after which the transaction commits
TxCommit(k) ==
    /\ tx[k].pc = "active"
    /\ db' = TxWrite(tx[k], db)
    /\ tx' = [tx EXCEPT ![k].pc = "done"]
    /\ UNCHANGED <<inputs, TxFrame>>

TxInit ==
    /\ now = StartTime
    /\ db \in {[c \in ConvIds |-> IF c \in WriteIds THEN l ELSE NoConv] :
                 l \in {NoConv,
                        saveMessage([x \in ConvIds |-> NoConv], "c1",
                                    ExternalMessage(LocalMsgId(10), StartTime, "L"),
                                    LocalAnchor, NoTitle, StartTime)["c1"]}}
    /\ gist = NoGist
    /\ token = TRUE
    /\ syncState = InitialSyncState
    /\ pendingChanges = <<>>
    /\ syncTimer = NoTimer
    /\ isSyncing = FALSE
    /\ run = [i \in Runs |-> IdleRun]
    /\ unrecorded = <<>>
    /\ inputs = 0
    /\ faults = 0
    /\ ret = NoRet
    /\ hyd = IdleHydrate
    /\ syncManagerInitialized = TRUE
    /\ savedGistId = FALSE
    /\ storedToken = TRUE
    /\ tx = <<>>
    /\ response = NoResponse
    /\ storedSyncState = persistSyncState(syncState)
    /\ initCalls = 0
    /\ hydLate = IdleHydrate
    /\ fileReaderPrototype = NativeFileReader
    /\ interceptor = NewFileInterceptor

TxNext ==
    \/ \E c \in WriteIds :
          TxIssue(SaveTx(c, ExternalMessage(LocalMsgId(inputs + 1), now, "L"), LocalAnchor))
    \/ \E cloudConv \in TxClouds : TxIssue(MergeTx(cloudConv))
    \/ \E c \in WriteIds : TxIssue(MarkTx(c))
    \/ \E k \in 1..Len(tx) : TxStart(k)
    \/ \E k \in 1..Len(tx) : TxCommit(k)

TxSpec == TxInit /\ [][TxNext]_vars

\* ---------------------------------------------------- pull() on its own
\* the first pull of a sync cycle against bounded remote documents: no gist,
\* a gist without the backup file, and backup files of this and of another
\* format version, of this and of another extension, whose anchors carry
\* geminiMessageId or not
PullExtensionIds == {"gemini-council", "other-extension"}
PullAnchors == {RemoteAnchor, ParseAnchor(RemoteAnchor)}

PullConvs ==
    {[id |-> c, messages |-> ms, anchors |-> [k \in Ids(ms) |-> a],
      lastUpdated |-> u, synced |-> TRUE, title |-> "tR"] :
        c \in WriteIds, ms \in MergeMsgLists("R"), a \in PullAnchors,
        u \in MergeStamps}

PullDocs ==
    {NoGist, GistWithoutFile} \cup
    {[BuildBackup(convs) EXCEPT !.version = v, !.extensionId = e] :
        convs \in {<<>>} \cup {<<r>> : r \in PullConvs},
        v \in BackupVersions, e \in PullExtensionIds}

PullInit ==
    /\ now = EndTime
    /\ db \in {[c \in ConvIds |-> IF c \in WriteIds THEN l ELSE NoConv] :
                 l \in {NoConv,
                        saveMessage([x \in ConvIds |-> NoConv], "c1",
                                    ExternalMessage(LocalMsgId(10), StartTime, "L"),
                                    LocalAnchor, NoTitle, StartTime)["c1"]}}
    /\ gist \in PullDocs
    /\ token = TRUE
    /\ syncState = [InitialSyncState EXCEPT !.status = "syncing"]
    /\ pendingChanges = <<>>
    /\ syncTimer = NoTimer
    /\ isSyncing = TRUE
    /\ run = [i \in Runs |->
                IF i = 1
                THEN [IdleRun EXCEPT !.pc = "pull", !.attempt = 1,
                                     !.trigger = "force",
                                     !.unsyncedAtStart = UnsyncedIds]
                ELSE IdleRun]
    /\ unrecorded = <<>>
    /\ inputs = 0
    /\ faults = 0
    /\ ret = NoRet
    /\ hyd = IdleHydrate
    /\ syncManagerInitialized = TRUE
    /\ savedGistId = FALSE
    /\ storedToken = TRUE
    /\ tx = <<>>
    /\ response = NoResponse
    /\ storedSyncState = persistSyncState(syncState)
    /\ initCalls = 0
    /\ hydLate = IdleHydrate
    /\ fileReaderPrototype = NativeFileReader
    /\ interceptor = NewFileInterceptor

PullNext ==
    \/ \E i \in Runs : PullOk(i)
    \/ \E i \in Runs, code \in PullErrors : PullFail(i, code)
    \/ \E i \in Runs : Merge(i)
    \/ \E i \in Runs : Wake(i)

PullSpec == PullInit /\ [][PullNext]_vars

\* ------------------------------------- a cycle over two conversations
\* one sync cycle, from its first pull on, over a store and a remote snapshot
\* that each hold none, one or both of two conversations; the store may fail
\* a write of the merge (an IndexedDB error such as QuotaExceededError)
CycleSeq(c) == IF c = "c1" THEN 1 ELSE 2

CycleLocals(c) ==
    {NoConv} \cup
    {[saveMessage([x \in ConvIds |-> NoConv], c,
                  ExternalMessage(LocalMsgId(10 + CycleSeq(c)), t, "L"),
                  LocalAnchor, NoTitle, t)[c] EXCEPT !.synced = sy] :
        t \in MergeStamps, sy \in BOOLEAN}

CycleRemotes(c) ==
    {[id |-> c,
      messages |-> <<ExternalMessage(RemoteMsgId(CycleSeq(c)), u, "R")>>,
      anchors |-> [k \in {RemoteMsgId(CycleSeq(c))} |-> RemoteAnchor],
      lastUpdated |-> u, synced |-> TRUE, title |-> "tR"] : u \in MergeStamps}

CycleDocs ==
    {NoGist} \cup
    {BuildBackup(convs) :
        convs \in {<<>>} \cup {<<r>> : r \in CycleRemotes("c1") \cup CycleRemotes("c2")}
                  \cup {<<r1, r2>> : r1 \in CycleRemotes("c1"), r2 \in CycleRemotes("c2")}}

CycleInit ==
    /\ now = EndTime
    /\ db \in {[c \in ConvIds |-> IF c = "c1" THEN l1 ELSE l2] :
                 l1 \in CycleLocals("c1"), l2 \in CycleLocals("c2")}
    /\ gist \in CycleDocs
    /\ token = TRUE
    /\ syncState = [InitialSyncState EXCEPT !.status = "syncing"]
    /\ pendingChanges = <<>>
    /\ syncTimer = NoTimer
    /\ isSyncing = TRUE
    /\ run = [i \in Runs |->
                IF i = 1
                THEN [IdleRun EXCEPT !.pc = "pull", !.attempt = 1,
                                     !.trigger = "force",
                                     !.unsyncedAtStart = UnsyncedIds]
                ELSE IdleRun]
    /\ unrecorded = <<>>
    /\ inputs = 0
    /\ faults = 0
    /\ ret = NoRet
    /\ hyd = IdleHydrate
    /\ syncManagerInitialized = TRUE
    /\ savedGistId = FALSE
    /\ storedToken = TRUE
    /\ tx = <<>>
    /\ response = NoResponse
    /\ storedSyncState = persistSyncState(syncState)
    /\ initCalls = 0
    /\ hydLate = IdleHydrate
    /\ fileReaderPrototype = NativeFileReader
    /\ interceptor = NewFileInterceptor

\* the Error a rejected store request raises
MergeThrows == "QuotaExceededError"

\* performSyncCycle step 2 when the write for the k-th conversation of the
\* snapshot is rejected: the error leaves the loop and the transaction scope,
\* the transaction is aborted and the writes made for the conversations
\* before it are rolled back; mergeFromCloud rejects, performSyncCycle throws
\* and the attempt ends in the catch block of executeSync
MergeFail(i, k) ==
    /\ run[i].pc = "merge"
    /\ k \in 1..Len(run[i].pulled)
    /\ MergeKind(mergeFromCloud(db, SubSeq(run[i].pulled, 1, k - 1))[run[i].pulled[k].id],
                 run[i].pulled[k]) # "unchanged"
    /\ faults < MaxFaults
    /\ faults' = faults + 1
    /\ db' = db
    /\ AttemptFailed(i, MergeThrows, syncState, FALSE)
    /\ UNCHANGED <<cycleFrame, gist, savedGistId>>

CycleNext ==
    \/ \E i \in Runs : PullOk(i)
    \/ \E i \in Runs : Merge(i)
    \/ \E i \in Runs, k \in 1..Len(ConvOrder) : MergeFail(i, k)
    \/ \E i \in Runs : Export(i)
    \/ \E i \in Runs, find \in FindErrors \cup {"ok"}, accepted \in BOOLEAN :
          Push(i, find, accepted)
    \/ \E i \in Runs : MarkSynced(i)
    \/ \E i \in Runs : Wake(i)

CycleSpec == CycleInit /\ [][CycleNext]_vars

\* ------------------------------------- a cycle in which every call may fail
\* performSyncCycle step 3 when exportAll() rejects
ExportFail(i) ==
    /\ run[i].pc = "export"
    /\ faults < MaxFaults
    /\ faults' = faults + 1
    /\ AttemptFailed(i, MergeThrows, syncState, FALSE)
    /\ UNCHANGED <<cycleFrame, db, gist, savedGistId>>

\* performSyncCycle step 6 when markSynced() rejects: its transaction is
\* aborted and no conversation is marked
MarkFail(i) ==
    /\ run[i].pc = "mark"
    /\ faults < MaxFaults
    /\ faults' = faults + 1
    /\ AttemptFailed(i, MergeThrows, syncState, FALSE)
    /\ UNCHANGED <<cycleFrame, db, gist, savedGistId>>

CycleFaultNext ==
    \/ CycleNext
    \/ \E i \in Runs, code \in PullErrors : PullFail(i, code)
    \/ \E i \in Runs : ExportFail(i)
    \/ \E i \in Runs : MarkFail(i)

\* every call of a cycle that has started returns, and the timeout of every
\* sleep fires
CycleFairSpec == CycleInit /\ [][CycleFaultNext]_vars /\ WF_vars(CycleFaultNext)

\* ----------------------------------------------------- process restarts
\* the service worker is terminated and started again: the SyncManager and
\* GistClient singletons, the timers and every invocation in flight are gone;
\* IndexedDB, chrome.storage.local and the remote gist stay. The new process
\* has the constructor's sync state until SyncManager.init() loads the stored
\* one
Restart ==
    /\ inputs < MaxInputs
    /\ inputs' = inputs + 1
    /\ syncState' = InitialSyncState
    /\ pendingChanges' = <<>>
    /\ syncTimer' = NoTimer
    /\ isSyncing' = FALSE
    /\ run' = [i \in Runs |-> IdleRun]
    /\ unrecorded' = <<>>
    /\ hyd' = IdleHydrate
    /\ syncManagerInitialized' = FALSE
    /\ token' = storedToken
    /\ ret' = NoRet
    /\ response' = NoResponse
    /\ initCalls' = 0
    /\ hydLate' = IdleHydrate
    /\ UNCHANGED <<now, db, gist, faults, savedGistId, storedToken, tx,
                   storedSyncState, contentVars>>

RestartNext == Next \/ Restart

RestartSpec == Init /\ [][RestartNext]_vars

\* ------------------------------ an authenticated session without failures
\* the session of a logged-in user in which every request to the remote and
\* to the store succeeds; the user saves messages and forces syncs
AuthInit == Init /\ token

\* time passes until the debounce timeout is due
Elapse ==
    /\ syncTimer # NoTimer
    /\ now < syncTimer
    /\ now' = syncTimer
    /\ ret' = NoRet
    /\ UNCHANGED <<db, gist, token, managerVars, syncTimer, run, unrecorded,
                   inputs, faults, lifeVars, response>>

\* the steps the runtime takes by itself: initialization and hydration,
\* resumed handlers, due timeouts, and the calls of a cycle, which all succeed
AuthSystemStep ==
    \/ InitSyncManager
    \/ HydratePullOk
    \/ HydrateMerge
    \/ RecordChange
    \/ Elapse
    \/ TimerFire
    \/ \E i \in Runs : PullOk(i)
    \/ \E i \in Runs : Merge(i)
    \/ \E i \in Runs : Export(i)
    \/ \E i \in Runs : Push(i, "ok", TRUE)
    \/ \E i \in Runs : MarkSynced(i)

AuthNext ==
    \/ AuthSystemStep
    \/ \E c \in WriteIds : SaveMessage(c)
    \/ ForceSync

\* every step the runtime can take is taken in the end; the user may stop
AuthFairSpec == AuthInit /\ [][AuthNext]_vars /\ WF_vars(AuthSystemStep)

\* ------------------------------ handlers that arrive during initialization
\* how many SyncManager.init() calls one process is followed through
MaxInitCalls == 2

\* the late init() returns from hydrate(): ensureSyncInitialized sets
\* syncManagerInitialized after its await
LateHydrateReturns ==
    /\ hydLate' = IdleHydrate
    /\ syncManagerInitialized' = TRUE

\* ensureSyncInitialized() called by a message handler while the call made at
\* startup is still awaiting init(): the flag is still false, so init() is
\* called again: loadSyncState, gistClient.init, hydrate
EnsureSyncInitialized ==
    /\ ~syncManagerInitialized
    /\ hyd.pc # "idle"
    /\ hyd.by = "init"
    /\ hydLate.pc = "idle"
    /\ initCalls < MaxInitCalls
    /\ initCalls' = initCalls + 1
    /\ IF HydrateSkips
       THEN /\ syncManagerInitialized' = TRUE
            /\ syncState' = loadSyncState(storedSyncState)
            /\ UNCHANGED hydLate
       ELSE /\ hydLate' = [pc |-> "pull", by |-> "init", pulled |-> <<>>]
            /\ syncState' = [loadSyncState(storedSyncState) EXCEPT
                                !.status = "syncing"]
            /\ UNCHANGED syncManagerInitialized
    /\ ret' = NoRet
    /\ UNCHANGED <<now, db, gist, token, pendingChanges, syncTimer, isSyncing, run,
                   unrecorded, inputs, faults, hyd, savedGistId, storedToken, tx,
                   response, storedSyncState, contentVars>>

\* hydrate() of the late init(): pull() answers with a snapshot
LatePullOk ==
    /\ hydLate.pc = "pull"
    /\ pull("none").success
    /\ hydLate' = [hydLate EXCEPT !.pc = "merge",
                                  !.pulled = pull("none").data.conversations]
    /\ savedGistId' = FoundGistId
    /\ ret' = NoRet
    /\ UNCHANGED <<now, db, gist, token, managerVars, syncTimer, run, unrecorded,
                   inputs, faults, hyd, syncManagerInitialized, storedToken, tx,
                   response, storedSyncState, initCalls, contentVars>>

\* hydrate() of the late init(): pull() answers with an error
LatePullFail(code) ==
    /\ hydLate.pc = "pull"
    /\ IF code \in FindErrors
       THEN faults < MaxFaults /\ faults' = faults + 1 /\ pull(code).code = code
       ELSE ~pull("none").success /\ pull("none").code = code /\ faults' = faults
    /\ syncState' = [syncState EXCEPT !.status = "error", !.error = GistMessage(code)]
    /\ savedGistId' = (code = "PARSE_ERROR")
    /\ LateHydrateReturns
    /\ ret' = NoRet
    /\ UNCHANGED <<now, db, gist, token, pendingChanges, syncTimer, isSyncing, run,
                   unrecorded, inputs, hyd, storedToken, tx, response,
                   storedSyncState, initCalls, contentVars>>

\* hydrate() of the late init(): mergeFromCloud, getUnsyncedCount,
\* scheduleSync() when it is positive, then the update to idle
LateMerge ==
    /\ hydLate.pc = "merge"
    /\ db' = mergeFromCloud(db, hydLate.pulled)
    /\ IF getUnsyncedCount(db') > 0
       THEN IF SyncsNow(Len(pendingChanges), syncState.lastSyncAt)
            THEN /\ syncTimer' = syncTimer
                 /\ IF ExecuteSyncSkips
                    THEN UNCHANGED <<isSyncing, run>>
                    ELSE /\ FreeRuns # {}
                         /\ isSyncing' = TRUE
                         /\ run' = [run EXCEPT ![FirstFree] =
                                        [IdleRun EXCEPT
                                            !.pc = "pull", !.attempt = 1,
                                            !.trigger = "threshold",
                                            !.pendingAtStart = pendingChanges,
                                            !.unsyncedAtStart =
                                                {c \in ConvIds : db'[c] # NoConv
                                                                 /\ ~db'[c].synced}]]
            ELSE /\ syncTimer' = now + SYNC_DEBOUNCE_MS
                 /\ UNCHANGED <<isSyncing, run>>
       ELSE UNCHANGED <<syncTimer, isSyncing, run>>
    /\ syncState' = [syncState EXCEPT !.status = "idle", !.lastSyncAt = now,
                                      !.error = NoError]
    /\ LateHydrateReturns
    /\ ret' = NoRet
    /\ storedSyncState' = persistSyncState(syncState')
    /\ UNCHANGED <<now, gist, token, pendingChanges, unrecorded, inputs, faults,
                   hyd, savedGistId, storedToken, tx, response, initCalls,
                   contentVars>>

EnsureNext ==
    \/ Next
    \/ EnsureSyncInitialized
    \/ LatePullOk
    \/ \E code \in PullErrors : LatePullFail(code)
    \/ LateMerge

EnsureSpec == Init /\ [][EnsureNext]_vars

\* ------------------------------------- the content script's FileInterceptor
\* how many file reads of the page are followed
MaxReads == 3

\* everything the background script owns
backgroundVars == <<now, db, gist, token, syncState, pendingChanges, syncTimer,
                    isSyncing, run, unrecorded, inputs, faults, ret, hyd,
                    syncManagerInitialized, savedGistId, storedToken, tx,
                    response, storedSyncState, lateVars>>

\* Mutant: start() does not look at _isActive
StartSkips_Never == FALSE

\* start(): the early return of an interceptor that is already active
StartSkips == interceptor.isActive

\* interceptFileReader(): the methods the prototype has afterwards;
\* readAsArrayBuffer is saved but not replaced
interceptFileReader(proto) ==
    [proto EXCEPT !.readAsDataURL = "intercepted", !.readAsText = "intercepted"]

\* restoreFileReader(): the methods the prototype has afterwards
restoreFileReader(proto, original) ==
    IF original = NoOriginal THEN proto ELSE original

\* start(): interceptFileReader saves the current methods and installs its
\* own, startPreviewMonitoring, _isActive = true
Start ==
    /\ IF StartSkips
       THEN UNCHANGED <<fileReaderPrototype, interceptor>>
       ELSE /\ interceptor' = [interceptor EXCEPT
                                  !.originalFileReader = fileReaderPrototype,
                                  !.isActive = TRUE]
            /\ fileReaderPrototype' = interceptFileReader(fileReaderPrototype)
    /\ UNCHANGED backgroundVars

\* stop(): restoreFileReader, stopPreviewMonitoring, pendingFiles.clear(),
\* _isActive = false
Stop ==
    /\ fileReaderPrototype' =
          restoreFileReader(fileReaderPrototype, interceptor.originalFileReader)
    /\ interceptor' = [interceptor EXCEPT !.originalFileReader = NoOriginal,
                                          !.pendingFiles = {},
                                          !.isActive = FALSE]
    /\ UNCHANGED backgroundVars

\* the page reads a File of an accepted size and type through a replaced
\* method: handleFileRead wraps the reader's onload and calls the saved method
FileRead(method) ==
    /\ fileReaderPrototype[method] = "intercepted"
    /\ interceptor.issued < MaxReads
    /\ interceptor' = [interceptor EXCEPT
                          !.issued = @ + 1,
                          !.reads = IF interceptor.originalFileReader = NoOriginal
                                    THEN @ ELSE @ \cup {interceptor.issued + 1}]
    /\ UNCHANGED <<fileReaderPrototype, backgroundVars>>

\* a wrapped onload fires: captureFile stores the file under a new
\* crypto.randomUUID(), here the number of the read
OnLoad(k) ==
    /\ k \in interceptor.reads
    /\ interceptor' = [interceptor EXCEPT !.reads = @ \ {k},
                                          !.pendingFiles = @ \cup {k}]
    /\ UNCHANGED <<fileReaderPrototype, backgroundVars>>

\* a wrapped onerror fires: handleError, nothing is stored
OnError(k) ==
    /\ k \in interceptor.reads
    /\ interceptor' = [interceptor EXCEPT !.reads = @ \ {k}]
    /\ UNCHANGED <<fileReaderPrototype, backgroundVars>>

\* removePendingFile(id) of a pending file
RemovePendingFile(id) ==
    /\ id \in interceptor.pendingFiles
    /\ interceptor' = [interceptor EXCEPT !.pendingFiles = @ \ {id}]
    /\ UNCHANGED <<fileReaderPrototype, backgroundVars>>

\* clearPendingFiles()
ClearPendingFiles ==
    /\ interceptor.pendingFiles # {}
    /\ interceptor' = [interceptor EXCEPT !.pendingFiles = {}]
    /\ UNCHANGED <<fileReaderPrototype, backgroundVars>>

InterceptorNext ==
    \/ Start
    \/ Stop
    \/ \E method \in {"readAsDataURL", "readAsText"} : FileRead(method)
    \/ \E k \in 1..MaxReads : OnLoad(k)
    \/ \E k \in 1..MaxReads : OnError(k)
    \/ \E id \in 1..MaxReads : RemovePendingFile(id)
    \/ ClearPendingFiles

InterceptorSpec == Init /\ [][InterceptorNext]_vars

\* ------------------------------------------------------------- properties
ActiveRuns == {i \in Runs : run[i].pc # "idle"}

IsPrefix(s, t) == Len(s) <= Len(t) /\ SubSeq(t, 1, Len(s)) = s

IsSortedByCreatedAt(ms) ==
    \A a, b \in 1..Len(ms) : a < b => ms[a].createdAt <= ms[b].createdAt

NoDuplicateIds(ms) == Cardinality(Ids(ms)) = Len(ms)

\* the ids of all messages of a list of conversations
AllIds(convs) == UNION {Ids(convs[k].messages) : k \in 1..Len(convs)}

\* the ids of the messages a list of conversations holds for conversation c
IdsFor(convs, c) ==
    UNION {Ids(convs[k].messages) : k \in {j \in 1..Len(convs) : convs[j].id = c}}

\* the steps of run i: the merge, the return after markSynced, the return of
\* false after the last attempt
MergeStep(i) == run[i].pc = "merge" /\ run'[i].pc = "export"
SuccessStep(i) == run[i].pc = "mark" /\ run'[i].pc = "idle"
GiveUpStep(i) ==
    run[i].pc \in {"pull", "push"} /\ run'[i].pc = "idle" /\ ~ret'.val
FailedAttemptStep(i) ==
    run[i].pc \in {"pull", "push"} /\ run'[i].pc \in {"sleep", "idle"}

\* C1: while a cycle is in progress forceSync() returns false and starts
\* nothing; at most one executeSync invocation is ever past its guards, and
\* isSyncing is set exactly while one is.
C1_AtMostOneCycle ==
    /\ [](Cardinality(ActiveRuns) <= 1 /\ (isSyncing <=> ActiveRuns # {}))
    /\ [][(isSyncing /\ ForceSync) =>
            (ret' = Returned("force", FALSE) /\ run' = run /\ gist' = gist
             /\ db' = db /\ syncState' = syncState)]_vars

C1_Witness ==
    isSyncing /\ ActiveRuns # {} /\ ret = Returned("force", FALSE)

C3_OlderRemoteStillUnioned ==
    [][\A i \in Runs : MergeStep(i) =>
          \A k \in 1..Len(run[i].pulled) :
             LET r == run[i].pulled[k]
                 l == db[r.id]
                 a == db'[r.id]
             IN (l # NoConv /\ r.lastUpdated <= l.lastUpdated) =>
                   /\ a.title = l.title
                   /\ a.lastUpdated = l.lastUpdated
                   /\ a.synced = l.synced
                   /\ Ids(r.messages) \subseteq Ids(a.messages)
                   /\ DOMAIN r.anchors \subseteq DOMAIN a.anchors]_vars

\* C4: when push has reported success, the snapshot that was pushed holds
\* every message id of the snapshot that was pulled in the same attempt.
C4_PulledIdsArePushed ==
    \A i \in Runs :
       run[i].pc = "mark" => AllIds(run[i].pulled) \subseteq AllIds(run[i].localData)

\* C5: when the remote does not accept the write request of push (or push
\* fails before it), push returns an error: the attempt ends in the catch
\* block and never reaches markSynced.
C5_RejectedPushIsAnError ==
    [][\A i \in Runs, find \in FindErrors \cup {"ok"} :
          Push(i, find, FALSE) =>
             (run'[i].pc \in {"sleep", "idle"} /\ ~ret'.val /\ db' = db)]_vars

\* C6: when a cycle has completed, a conversation with synced = true holds no
\* message that is missing from the snapshot the cycle pushed; a message saved
\* after exportAll leaves its conversation with synced = false.
C6_SyncedMeansPushed ==
    [][\A i \in Runs : SuccessStep(i) =>
          \A c \in ConvIds :
             (db'[c] # NoConv /\ db'[c].synced) =>
                Ids(db'[c].messages) \subseteq IdsFor(run[i].localData, c)]_vars

\* C7: the changes recorded while a cycle was in flight are still in the
\* pending list, and in the pending count, when that cycle has succeeded.
C7_MidCycleChangeKept ==
    [][\A i \in Runs : SuccessStep(i) =>
          LET n0 == Len(run[i].pendingAtStart)
              during == SubSeq(pendingChanges, n0 + 1, Len(pendingChanges))
          IN /\ \A j \in 1..Len(during) :
                   \E j2 \in 1..Len(pendingChanges') : pendingChanges'[j2] = during[j]
             /\ syncState'.pendingChanges >= Len(during)]_vars

\* C8: when the third attempt fails and no attempt failed with a NETWORK
\* error, executeSync returns false with status error and the last message,
\* and no conversation that was unsynced at the trigger is synced.
C8_RetryThenGiveUp ==
    [][\A i \in Runs, code \in FindErrors \ {"NETWORK"} :
          (/\ PullFail(i, code) \/ Push(i, code, FALSE)
           /\ run[i].attempt = MAX_RETRY_ATTEMPTS
           /\ ~run[i].sawNetwork) =>
             /\ ret' = Returned(run[i].trigger, FALSE)
             /\ syncState'.status = "error"
             /\ syncState'.error = IF run[i].pc = "pull" THEN PullThrows(code)
                                   ELSE PushThrows(code)
             /\ \A c \in run[i].unsyncedAtStart : ~db'[c].synced]_vars

\* C9: no step of a sync that does not succeed changes the pending list or
\* the pending count, a failed attempt and the return of false included; an
\* entry leaves the list only when a sync succeeds or on logout; and when
\* executeSync returns false the count is the length of the list.
C9_FailureKeepsPending ==
    [][/\ \A i \in Runs :
             /\ (run'[i] # run[i] /\ run[i].pc # "idle" /\ ~SuccessStep(i)) =>
                   /\ pendingChanges' = pendingChanges
                   /\ syncState'.pendingChanges = syncState.pendingChanges
             /\ GiveUpStep(i) =>
                   syncState'.pendingChanges = Len(pendingChanges')
       /\ ~IsPrefix(pendingChanges, pendingChanges') =>
             (Logout \/ \E i \in Runs : SuccessStep(i))]_vars

\* a sync started by the timer gave up while holding the change it was
\* started for and one recorded while it ran (which armed the timer again)
C9_Witness ==
    /\ ret = Returned("timer", FALSE)
    /\ syncState.status = "error"
    /\ Len(pendingChanges) = 2
    /\ syncState.pendingChanges = 2
    /\ syncTimer # NoTimer
    /\ ActiveRuns = {}

\* C10: a NETWORK error of pull or push ends the triggered sync at once:
\* executeSync returns false, without a further attempt, with status offline.
C10_NetworkEndsTheSync ==
    [][\A i \in Runs :
          (PullFail(i, "NETWORK") \/ Push(i, "NETWORK", FALSE)) =>
             /\ syncState'.status = "offline"
             /\ run'[i].pc = "idle"
             /\ ret' = Returned(run[i].trigger, FALSE)]_vars

\* a step in which an executeSync invocation passes its guards
StartStep(i) == run[i].pc = "idle" /\ run'[i].pc # "idle"

\* the synced flags of the store
SyncedIds(store) == {c \in ConvIds : store[c] # NoConv /\ store[c].synced}

\* C11: an AUTH_FAILED answer of pull or push ends the triggered sync at
\* once: executeSync returns false without a further attempt, with status
\* error and the authentication error message.
C11_AuthFailureEndsTheSync ==
    [][\A i \in Runs :
          (PullFail(i, "AUTH_FAILED") \/ Push(i, "AUTH_FAILED", FALSE)) =>
             /\ run'[i].pc = "idle"
             /\ ret' = Returned(run[i].trigger, FALSE)
             /\ syncState'.status = "error"
             /\ syncState'.error = GistMessage("AUTH_FAILED")]_vars

\* C12: when pull answers PARSE_ERROR, in a sync cycle or in hydrate(), the
\* store and the remote backup are left as they are and mergeFromCloud is not
\* called: the attempt ends in the catch block, hydrate() returns.
C12_ParseErrorAbortsBeforeMerge ==
    [][/\ \A i \in Runs : PullFail(i, "PARSE_ERROR") =>
             /\ db' = db
             /\ gist' = gist
             /\ run'[i].pc \in {"sleep", "idle"}
             /\ run'[i].pulled = <<>>
             /\ run'[i].localData = <<>>
       /\ HydratePullFail("PARSE_ERROR") =>
             /\ db' = db
             /\ gist' = gist
             /\ hyd' = IdleHydrate
             /\ syncState'.status = "error"]_vars

\* a sync started by the debounce timer gave up on a backup of another format,
\* with the saved conversation still in the store and the backup in place
C12_Witness ==
    /\ ret = Returned("timer", FALSE)
    /\ syncState.error = PullThrows("PARSE_ERROR")
    /\ gist # NoGist
    /\ ~Parses(gist)
    /\ \E c \in ConvIds : db[c] # NoConv /\ Len(db[c].messages) = 1 /\ ~db[c].synced

\* C13: merging the snapshot that has just been merged once more changes
\* nothing: messages, anchors, title, lastUpdated and synced of every
\* conversation are those after the first merge, and no message id is twice
\* in a conversation.
C13_MergeIdempotent ==
    [][\A i \in Runs : MergeStep(i) =>
          /\ mergeFromCloud(db', run[i].pulled) = db'
          /\ \A c \in ConvIds :
                db'[c] # NoConv => NoDuplicateIds(db'[c].messages)]_vars

\* a merge of a newer remote conversation that changed the local one and
\* brought a message of its own
C13_Witness ==
    \E i \in Runs :
       /\ run[i].pc = "export"
       /\ Len(run[i].pulled) = 1
       /\ LET r == run[i].pulled[1]
              a == db[r.id]
          IN /\ a.lastUpdated = r.lastUpdated
             /\ a.title = "tL"
             /\ \E x, y \in MsgSet(a.messages) : x.content = "L" /\ y.content = "R"
             /\ Len(r.messages) < Len(a.messages)

C15_ThresholdStartsSync ==
    [][\A c \in ConvIds :
          (/\ SaveMessage(c)
           /\ syncManagerInitialized
           /\ token
           /\ ~isSyncing
           /\ Len(pendingChanges) = SYNC_MESSAGE_THRESHOLD - 1
           /\ \/ syncState.lastSyncAt = NoSyncAt
              \/ now - syncState.lastSyncAt >= MIN_SYNC_INTERVAL_MS) =>
             /\ isSyncing'
             /\ syncState'.status = "syncing"
             /\ \E i \in Runs :
                   /\ StartStep(i)
                   /\ run'[i].pc = "pull"
                   /\ run'[i].trigger = "threshold"
                   /\ Len(run'[i].pendingAtStart) = SYNC_MESSAGE_THRESHOLD]_vars

\* the fifth change started a cycle exactly MIN_SYNC_INTERVAL_MS after the
\* last sync, and the debounce timer of the fourth is still pending
C15_Witness ==
    /\ \E i \in Runs : run[i].pc = "pull" /\ run[i].trigger = "threshold"
    /\ Len(pendingChanges) = SYNC_MESSAGE_THRESHOLD
    /\ syncState.lastSyncAt # NoSyncAt
    /\ now - syncState.lastSyncAt = MIN_SYNC_INTERVAL_MS
    /\ syncTimer > now

\* C16: a cycle started by the debounce timer or by the threshold starts at
\* least MIN_SYNC_INTERVAL_MS after the last completed sync.
C16_MinimumInterval ==
    [][\A i \in Runs :
          (/\ StartStep(i)
           /\ run'[i].trigger \in {"timer", "threshold"}
           /\ syncState.lastSyncAt # NoSyncAt) =>
             now - syncState.lastSyncAt >= MIN_SYNC_INTERVAL_MS]_vars

\* C17: while the status is syncing, hydration included, no trigger starts a
\* sync cycle.
C17_NoStartWhileSyncing ==
    [][syncState.status = "syncing" => \A i \in Runs : ~StartStep(i)]_vars

\* C18: without a token (after logout, until the next login) no step of a
\* sync cycle, one that was in flight at the logout included, writes the
\* remote backup, sets a synced flag or changes the sync state.
C18_NothingAfterLogout ==
    [][(~token /\ ~token' /\ run' # run) =>
          /\ gist' = gist
          /\ SyncedIds(db') \subseteq SyncedIds(db)
          /\ syncState' = syncState]_vars

\* C19: login stores the token and starts hydration only when the remote
\* accepted the token, otherwise it returns an error and leaves token, stored
\* token, cached gist id, sync state, store and hydration as they are; and it
\* returns success only in the step in which its hydration ends.
C19_LoginValidatesFirst ==
    [][/\ \A answer \in LoginAnswers : Login(answer) =>
             IF answer = "ok"
             THEN /\ token' /\ storedToken'
                  /\ hyd'.pc = "pull" /\ hyd'.by = "login"
                  /\ ret' = NoRet
             ELSE /\ ret' = Returned("login", FALSE)
                  /\ token' = token /\ storedToken' = storedToken
                  /\ savedGistId' = savedGistId
                  /\ syncState' = syncState
                  /\ hyd' = hyd
                  /\ db' = db
       /\ ret' = Returned("login", TRUE) =>
             (hyd.by = "login" /\ hyd.pc # "idle" /\ hyd'.pc = "idle")]_vars

\* login on a manager without a token has returned success, its hydration
\* having merged the conversation of another device
C19_Witness ==
    /\ ret = Returned("login", TRUE)
    /\ token /\ storedToken
    /\ hyd = IdleHydrate
    /\ syncState.status = "idle"
    /\ syncState.lastSyncAt = now
    /\ \E c \in ConvIds : db[c] # NoConv /\ db[c].synced

\* C20: hydrate() without a token pulls nothing and leaves the sync state
\* (status idle, no error), the timer, the store and the remote as they are.
C20_HydrateWithoutToken ==
    [][(InitSyncManager /\ ~token) =>
          /\ hyd' = IdleHydrate
          /\ syncState' = syncState
          /\ syncState'.status = "idle"
          /\ syncState'.error = NoError
          /\ syncTimer' = NoTimer
          /\ db' = db
          /\ gist' = gist
          /\ run' = run
          /\ faults' = faults]_vars

\* the initialization has completed without a token, after a message was saved
\* and another device had written a backup
C20_Witness ==
    /\ syncManagerInitialized
    /\ ~token
    /\ hyd = IdleHydrate
    /\ syncState = InitialSyncState
    /\ gist # NoGist
    /\ unrecorded # <<>>
    /\ \E c \in ConvIds : db[c] # NoConv

\* the step in which hydrate() returns after its merge
HydrateDoneStep == hyd.pc = "merge" /\ hyd'.pc = "idle"

\* C21: when hydrate() returns after pull and merge and a local conversation
\* still has synced = false (and no saveMessage handler is still to record
\* its change), the debounce timer is armed or a sync cycle has been started.
C21_HydrationSchedulesUnsynced ==
    [][(/\ HydrateDoneStep
        /\ unrecorded = <<>>
        /\ \E c \in ConvIds : db'[c] # NoConv /\ ~db'[c].synced) =>
          (syncTimer' # NoTimer \/ \E i \in Runs : StartStep(i))]_vars

\* the position of message id in a list
PosOf(ms, id) == CHOOSE k \in 1..Len(ms) : ms[k].id = id

\* the saveMessage transactions that have committed
DoneSaves == {k \in 1..Len(tx) : tx[k].kind = "save" /\ tx[k].pc = "done"}

\* C22: saveMessage calls for one conversation all take effect, whatever runs
\* concurrently: each commit appends its message and anchor to the
\* conversation as it is at that moment and sets synced = false; afterwards
\* the conversation holds the messages of all committed calls, in the order
\* the calls were issued, each with its anchor, also around a mergeFromCloud
\* or markSynced.
C22_NoLostSave ==
    /\ [][\A k \in 1..Len(tx) :
             (tx[k].kind = "save" /\ tx[k].pc = "active" /\ tx'[k].pc = "done") =>
                /\ db' = saveMessage(db, tx[k].c, tx[k].message, tx[k].anchor,
                                     NoTitle, now)
                /\ ~db'[tx[k].c].synced]_vars
    /\ [](\A j, k \in DoneSaves :
             LET conv == db[tx[k].c]
             IN /\ conv # NoConv
                /\ tx[k].message \in MsgSet(conv.messages)
                /\ tx[k].message.id \in DOMAIN conv.anchors
                /\ conv.anchors[tx[k].message.id] = tx[k].anchor
                /\ (j < k /\ tx[j].c = tx[k].c) =>
                      PosOf(conv.messages, tx[j].message.id)
                         < PosOf(conv.messages, tx[k].message.id))

\* two saves into a conversation that did not exist, issued before either
\* started, with a merge of a newer remote conversation issued between them:
\* all three have committed
C22_Witness ==
    /\ Len(tx) = 3
    /\ tx[1].kind = "save" /\ tx[2].kind = "merge" /\ tx[3].kind = "save"
    /\ tx[2].cloud.lastUpdated > StartTime
    /\ tx[1].read = NoConv
    /\ \A k \in 1..3 : tx[k].pc = "done"
    /\ Len(db["c1"].messages) = 3
    /\ ~db["c1"].synced

\* a step in which the pull of run i is answered
PullStep(i) == run[i].pc = "pull" /\ run'[i].pc # "pull"

\* the remote holds a backup file
HasBackupFile == gist \notin {NoGist, GistWithoutFile}

\* C23: when no backup gist exists, or the gist has no backup file, pull()
\* answered by the remote without an error returns success with the empty
\* snapshot (version 1, extensionId gemini-council, no conversations), and
\* no answer of pull() carries NOT_FOUND.
C23_EmptyRemoteBootstrap ==
    /\ [](\A fault \in FindErrors \cup {"none"} : pull(fault).code # "NOT_FOUND")
    /\ [](~HasBackupFile =>
             /\ pull("none") = Success(createEmptyBackup)
             /\ pull("none").data.version = 1
             /\ pull("none").data.extensionId = "gemini-council"
             /\ pull("none").data.conversations = <<>>)
    /\ [][\A i \in Runs :
             (PullStep(i) /\ ~HasBackupFile /\ faults' = faults) =>
                (run'[i].pc = "merge" /\ run'[i].pulled = <<>> /\ ret' = NoRet)]_vars

\* without a gist, and with a gist that lacks the file, the pull has answered
\* and the cycle is about to merge nothing into a store that holds a
\* conversation
C23_Witness ==
    /\ ~HasBackupFile
    /\ faults = 0
    /\ \E i \in Runs : run[i].pc = "merge" /\ run[i].pulled = <<>>
    /\ \E c \in ConvIds : db[c] # NoConv

\* C24: a snapshot as push writes it comes back from pull equal in every
\* field, the geminiMessageId of each anchor included.
C24_SnapshotRoundTrip ==
    [][\A i \in Runs :
          (/\ PullStep(i)
           /\ faults' = faults
           /\ HasBackupFile
           /\ gist = BuildBackup(gist.conversations)) =>
             /\ pull("none").success
             /\ pull("none").data = gist
             /\ run'[i].pulled = gist.conversations]_vars

\* C25: a backup file whose version is not 1 or whose extensionId is not
\* gemini-council makes pull() return PARSE_ERROR with no data, and no step
\* taken while it is the remote file changes the store or reaches the merge.
C25_WrongLiteralsRejected ==
    /\ []((HasBackupFile /\ (gist.version # 1 \/ gist.extensionId # "gemini-council"))
            => pull("none") = Failure("PARSE_ERROR"))
    /\ [][(HasBackupFile /\ (gist.version # 1 \/ gist.extensionId # "gemini-council"))
            => /\ db' = db
               /\ \A i \in Runs : run'[i].pc \notin {"merge", "export"}
                                  /\ run'[i].pulled = <<>>]_vars

\* after three attempts the sync has given up on a file of another extension
\* that holds a conversation; the store still has only its own conversation
C25_Witness ==
    /\ HasBackupFile
    /\ gist.version = 1
    /\ gist.extensionId # "gemini-council"
    /\ Len(gist.conversations) = 1
    /\ Len(gist.conversations[1].messages) > 0
    /\ ret = Returned("force", FALSE)
    /\ syncState.status = "error"
    /\ syncState.error = PullThrows("PARSE_ERROR")
    /\ faults = 0
    /\ \E c \in ConvIds : db[c] # NoConv /\ Len(db[c].messages) = 1

\* C26: a local write returns success whatever the sync condition: the
\* message is in the store, the change is in the pending list, and the
\* handler answers success, also when the executeSync it triggered returned
\* false.
C26_WriteNeverFailsOnSync ==
    [][/\ \A c \in ConvIds :
             (SaveMessage(c) /\ syncManagerInitialized) =>
                /\ response' = Responded(TRUE)
                /\ db'[c] # NoConv
                /\ db'[c].messages[Len(db'[c].messages)].id = LocalMsgId(inputs + 1)
                /\ ~db'[c].synced
                /\ Len(pendingChanges') = Len(pendingChanges) + 1
                /\ pendingChanges'[Len(pendingChanges')].conversationId = c
       /\ RecordChange => response' = Responded(TRUE)
       /\ response' # response => response' = Responded(TRUE)]_vars

\* a message was saved and answered with success while a forced sync that
\* had met a network error was waiting to retry, status offline
C26_Witness ==
    /\ response = Responded(TRUE)
    /\ \E i \in Runs :
          /\ run[i].pc = "sleep"
          /\ run[i].trigger = "force"
          /\ run[i].sawNetwork
          /\ run[i].pendingAtStart = <<>>
    /\ syncState.status = "offline"
    /\ Len(pendingChanges) = 1
    /\ syncTimer # NoTimer
    /\ \E c \in ConvIds : db[c] # NoConv /\ ~db[c].synced

\* C27: from the start of a triggered sync to its final outcome, through every
\* attempt and every backoff wait, the status stays "syncing": while isSyncing
\* is true the sync state never shows idle, error or offline.
C27_SyncingWhileIsSyncing ==
    isSyncing => syncState.status = "syncing"

C29_MergeFailureIsolated ==
    [][\A i \in Runs, k \in 1..Len(ConvOrder) :
          (MergeFail(i, k) /\ Len(run[i].pulled) > 1) =>
             /\ \A j \in 1..Len(run[i].pulled) :
                   j # k => db'[run[i].pulled[j].id] =
                               MergeConv(db[run[i].pulled[j].id], run[i].pulled[j])
             /\ run'[i].pc = "export"]_vars

\* the conversations of the store that the pulled snapshot of run i lacks
LocalOnly(i) ==
    {c \in ConvIds : db[c] # NoConv /\ c \notin ConvIdsOf(run[i].pulled)}

\* C30: mergeFromCloud leaves every conversation that exists only locally
\* unchanged in every field, the export holds it, and the snapshot the push
\* of the cycle writes contains it.
C30_LocalOnlyUntouched ==
    [][\A i \in Runs :
          /\ Merge(i) => \A c \in LocalOnly(i) : db'[c] = db[c]
          /\ Export(i) /\ token =>
                \A c \in LocalOnly(i) :
                   \E k \in 1..Len(run'[i].localData) : run'[i].localData[k] = db[c]
          /\ Push(i, "ok", TRUE) =>
                \A c \in LocalOnly(i) :
                   \E k \in 1..Len(gist'.conversations) :
                      gist'.conversations[k] = db[c]]_vars

\* the cycle pulled a snapshot that holds c1 only, merged it beside the local
\* conversation c2, and pushed a snapshot of both
C30_Witness ==
    \E i \in Runs :
       /\ run[i].pc = "mark"
       /\ ConvIdsOf(run[i].pulled) = {"c1"}
       /\ db["c1"] # NoConv /\ db["c2"] # NoConv
       /\ db["c2"].synced
       /\ Len(db["c2"].messages) = 1
       /\ gist.conversations = <<db["c1"], db["c2"]>>

\* C31: a remote conversation whose id the store lacks is stored with exactly
\* the remote messages, anchors, title and lastUpdated and with synced = true,
\* and mergeFromCloud counts it as added.
C31_AbsentAdoptedVerbatim ==
    [][\A i \in Runs : MergeStep(i) =>
          LET absent == {k \in 1..Len(run[i].pulled) : db[run[i].pulled[k].id] = NoConv}
          IN /\ \A k \in absent :
                   LET r == run[i].pulled[k]
                       a == db'[r.id]
                   IN /\ a.id = r.id
                      /\ a.messages = r.messages
                      /\ a.anchors = r.anchors
                      /\ a.title = r.title
                      /\ a.lastUpdated = r.lastUpdated
                      /\ a.synced = TRUE
             /\ MergeCounts(db, run[i].pulled, NoCounts).added = Cardinality(absent)]_vars

\* a remote conversation with messages that its pusher had not yet marked
\* synced was added to an empty store
C31_Witness ==
    \E i \in Runs :
       /\ run[i].pc = "export"
       /\ Len(run[i].pulled) = 1
       /\ ~run[i].pulled[1].synced
       /\ Len(run[i].pulled[1].messages) = 2
       /\ db[run[i].pulled[1].id] = [run[i].pulled[1] EXCEPT !.synced = TRUE]

\* the number of messages in the conversations convs[1..n]
RECURSIVE CountMessages(_, _)
CountMessages(convs, n) ==
    IF n = 0 THEN 0 ELSE Len(convs[n].messages) + CountMessages(convs, n - 1)

\* C32: every snapshot a cycle pushes is built from an export made in the
\* same attempt after its merge, never from one kept from an earlier attempt;
\* the export holds every conversation of the store as of that moment, and
\* totalMessages of the snapshot is the sum of their message counts.
C32_PushedSnapshotIsFresh ==
    /\ [](\A i \in Runs : run[i].pc \notin {"push", "mark"} => run[i].localData = <<>>)
    /\ [][\A i \in Runs :
            /\ (run'[i].pc = "export" /\ run[i].pc # "export") =>
                  run[i].pc = "merge" /\ run'[i].attempt = run[i].attempt
            /\ (run'[i].pc = "push" /\ run[i].pc # "push") =>
                  /\ run[i].pc = "export" /\ run'[i].attempt = run[i].attempt
                  /\ \A c \in ConvIds :
                        db[c] # NoConv =>
                           \E k \in 1..Len(run'[i].localData) : run'[i].localData[k] = db[c]
                  /\ \A k \in 1..Len(run'[i].localData) :
                        run'[i].localData[k] = db[run'[i].localData[k].id]
            /\ Push(i, "ok", TRUE) =>
                  /\ gist'.conversations = run[i].localData
                  /\ gist'.totalMessages =
                        CountMessages(run[i].localData, Len(run[i].localData))
            /\ (gist' # gist /\ run'[i] # run[i]) => Push(i, "ok", TRUE)]_vars

\* the second attempt of a cycle has pushed a snapshot of one conversation
\* with two messages
C32_Witness ==
    \E i \in Runs :
       /\ run[i].pc = "mark"
       /\ run[i].attempt = 2
       /\ Len(run[i].localData) = 1
       /\ Len(run[i].localData[1].messages) = 2
       /\ gist \notin {NoGist, GistWithoutFile}
       /\ gist.conversations = run[i].localData
       /\ gist.totalMessages = 2

\* C33: a forceSync that starts a cycle leaves no debounce timer armed, so
\* the timer armed before it never fires; a forceSync while a cycle is in
\* progress returns false and changes neither that cycle nor the timer, the
\* flag or the sync state, and no forceSync changes a run that is under way.
C33_ForceCancelsOnlyTheTimer ==
    [][ForceSync =>
          /\ ~isSyncing => syncTimer' = NoTimer
          /\ (\E i \in Runs : run'[i].pc = "pull" /\ run[i].pc = "idle") =>
                syncTimer' = NoTimer
          /\ isSyncing =>
                /\ ret' = Returned("force", FALSE)
                /\ UNCHANGED <<run, syncTimer, isSyncing, syncState, pendingChanges>>
          /\ \A i \in Runs : run[i].pc # "idle" => run'[i] = run[i]]_vars

\* a forced cycle has started while the timer armed by the last recorded
\* change was not yet due, and no timer is armed any more
C33_Witness ==
    \E i \in Runs :
       /\ run[i].pc = "pull" /\ run[i].attempt = 1 /\ run[i].trigger = "force"
       /\ run[i].pendingAtStart # <<>>
       /\ pendingChanges = run[i].pendingAtStart
       /\ now < pendingChanges[Len(pendingChanges)].timestamp + SYNC_DEBOUNCE_MS
       /\ syncTimer = NoTimer
       /\ isSyncing

\* C34: the stored sync state always holds the lastSyncAt set last, a restart
\* leaves it as it is, and the initialization after a restart starts from
\* that lastSyncAt with status idle, no pending change and no error, whatever
\* these were before (hydrate, when there is a token, then sets status
\* syncing).
C34_RestartKeepsOnlyLastSyncAt ==
    /\ []((syncManagerInitialized \/ hyd.pc # "idle") =>
             storedSyncState.lastSyncAt = syncState.lastSyncAt)
    /\ [][/\ Restart => storedSyncState' = storedSyncState
          /\ InitSyncManager =>
               LET loaded == [status |-> "idle",
                              lastSyncAt |-> storedSyncState.lastSyncAt,
                              pendingChanges |-> 0, error |-> NoError]
               IN syncState' = IF token THEN [loaded EXCEPT !.status = "syncing"]
                               ELSE loaded]_vars

\* the process was restarted after a sync had set lastSyncAt, and the startup
\* hydration runs with that lastSyncAt, no pending change and no error
C34_Witness ==
    /\ hyd.pc = "pull" /\ hyd.by = "init"
    /\ ~syncManagerInitialized
    /\ syncState.lastSyncAt # NoSyncAt
    /\ syncState.lastSyncAt = storedSyncState.lastSyncAt
    /\ syncState.pendingChanges = 0
    /\ syncState.error = NoError
    /\ \E c \in ConvIds : db[c] # NoConv /\ ~db[c].synced

C36_CycleEndsAndClearsFlag ==
    /\ [](isSyncing => \E i \in Runs : run[i].pc # "idle")
    /\ [][\A i \in Runs :
            (run[i].pc # "idle" /\ run'[i].pc = "idle") => ~isSyncing']_vars
    /\ \A i \in Runs : (run[i].pc # "idle") ~> (run[i].pc = "idle" /\ ~isSyncing)
    /\ isSyncing ~> ~isSyncing

\* the cycle gave up after its third attempt, in which a store call threw, and
\* the flag is reset
C36_Witness ==
    /\ ~isSyncing
    /\ \A i \in Runs : run[i].pc = "idle"
    /\ ret = Returned("force", FALSE)
    /\ syncState.status = "error"
    /\ syncState.error = MergeThrows
    /\ faults = MaxFaults

\* the snapshot in the gist holds the message with this id
Pushed(id) ==
    /\ gist \notin {NoGist, GistWithoutFile}
    /\ \E k \in 1..Len(gist.conversations) : id \in Ids(gist.conversations[k].messages)

\* C37: while authenticated and with every call succeeding, every message
\* saved locally is eventually in a pushed snapshot, without a further local
\* write or forceSync, also when it was saved while a cycle was in flight and
\* after that cycle's export.
C37_SavedIsEventuallyPushed ==
    \A c \in WriteIds, n \in 1..MaxInputs :
       (db[c] # NoConv /\ LocalMsgId(n) \in Ids(db[c].messages)) ~> Pushed(LocalMsgId(n))

\* C38: in every reachable state status idle goes with error null, and status
\* error with an error message.
C38_StatusMatchesError ==
    /\ syncState.status = "idle" => syncState.error = NoError
    /\ syncState.status = "error" => syncState.error # NoError

\* C39: SyncManager.init(), and with it the startup hydration, is called at
\* most once in a process, also when message handlers call
\* ensureSyncInitialized before the first initialization has finished.
C39_InitRunsOnce == initCalls <= 1

\* C40: for one FileInterceptor, whenever it is not active, and so after every
\* stop(), FileReader.prototype holds the methods it had before the first
\* start(); every stop() leaves isActive false and no pending file; a start()
\* of an active interceptor changes nothing.
C40_StopRestoresEverything ==
    /\ [](~interceptor.isActive => fileReaderPrototype = NativeFileReader)
    /\ [][Stop => /\ ~interceptor'.isActive
                  /\ interceptor'.pendingFiles = {}
                  /\ fileReaderPrototype' = NativeFileReader]_vars
    /\ [][Start /\ interceptor.isActive => UNCHANGED contentVars]_vars

\* stopped after a start, with a wrapped read of the active time still under
\* way: the prototype is the browser's again and nothing is pending
C40_Witness ==
    /\ ~interceptor.isActive
    /\ interceptor.reads # {}
    /\ interceptor.issued = MaxReads
    /\ interceptor.pendingFiles = {}
    /\ interceptor.originalFileReader = NoOriginal
    /\ fileReaderPrototype = NativeFileReader

====
